---- MODULE Spec2Model ----
(***************************************************************************)
(* Components of the agent framework, each with its own specification:     *)
(*                                                                         *)
(*  Spec        the multi-step decision cycle of the bootstrap plugin,     *)
(*              runMultiStepCoreTest in                                    *)
(*              packages/plugin-bootstrap/src/__tests__/multi-step.test.ts *)
(*  SpecServer  the messaging routes of                                    *)
(*              packages/server/src/api/messaging/core.ts and the world    *)
(*              settings helpers getWorldSettings / updateWorldSettings    *)
(*  SpecEval    EvaluationEngine.runEvaluations                            *)
(*  SpecClone   deepClone and hasCircularReference                         *)
(*  SpecSettings concurrent invocations of updateSettingsAction.handler    *)
(*              with processSettingUpdates (multi-step.test.ts)            *)
(*  SpecAdapter PgliteDatabaseAdapter: withDatabase, isReady, close and    *)
(*              ensureAgentExists                                          *)
(*  SpecAudio   the audio routes of packages/server/src/api/audio          *)
(*  SpecPlugins PluginParser.validatePlugins                               *)
(*  SpecMatrix  the shutdown of a matrix run in packages/cli tee command   *)
(*                                                                         *)
(* One behaviour of Spec is one call of runMultiStepCoreTest.  The model   *)
(* output, the providers, the action pipeline, the state cache and the     *)
(* callback are the environment: every one of their outcomes is chosen     *)
(* nondeterministically at the point where the code awaits it.  The same   *)
(* holds for the storage calls the routes and the helpers await.           *)
(***************************************************************************)
EXTENDS Integers, Sequences, FiniteSets, TLC

(***************************************************************************)
(* Bounds of the explored input space.                                     *)
(***************************************************************************)
\* largest value of the MAX_MULTISTEP_ITERATIONS setting that is explored
MaxIterationsSetting == 2
\* longest provider list a parsed step names
MaxProviders == 2

(***************************************************************************)
(* Values of the environment.                                              *)
(***************************************************************************)
\* providers registered in runtime.providers (line 55-66)
RegisteredProviders == {"TEST_PROVIDER"}
\* provider names the model may put in a step; one of them is not registered
ProviderNames == RegisteredProviders \cup {"NON_EXISTENT_PROVIDER"}
\* the `action` field of a parsed step: null or the name of an action
NoAction == "null"
ActionNames == {"TEST_ACTION"}
\* the `isFinish` field of a parsed step: the boolean, or its XML text
IsFinishValues == {"bool:true", "str:true", "bool:false"}
\* value of a field that is undefined in the JavaScript object
Undefined == "undefined"
\* messages of the errors the environment throws
ProviderFailed == "Provider failed"
ActionFailed == "Action failed"
CallbackFailed == "Callback failed"

\* provider lists without repetition, at most MaxProviders long
ProviderLists ==
  { s \in UNION { [1..n -> ProviderNames] : n \in 0..MaxProviders } :
      \A i, j \in DOMAIN s : i # j => s[i] # s[j] }

\* what mockParseKeyValueXml returns for a decision output: null, or a step
ParseNull == [parsed |-> FALSE]
Step(p, a, f) == [parsed |-> TRUE, providers |-> p, action |-> a, isFinish |-> f]
\* the steps that are not marked finished
UnfinishedSteps ==
  { Step(p, a, "bool:false") : p \in ProviderLists, a \in ActionNames \cup {NoAction} }
\* the steps that are marked finished: their providers and action are never
\* read (line 562 leaves the loop), so they are explored with nothing named
\* and with one provider and an action named
FinishedSteps ==
  { Step(p, a, f) : p \in {<< >>}, a \in {NoAction}, f \in IsFinishValues \ {"bool:false"} }
  \cup
  { Step(<< p >>, a, f) : p \in RegisteredProviders, a \in ActionNames,
                          f \in IsFinishValues \ {"bool:false"} }
ParsedSteps == UnfinishedSteps \cup FinishedSteps
NoStep == [parsed |-> FALSE, none |-> TRUE]

\* what mockParseKeyValueXml returns for the summary output: null, or an
\* object, given by its text: empty or not
SummaryNull == "null"
SummaryValues == {SummaryNull, "", "Final response"}
NoSummary == "not called"

\* the call has not ended; it ended by an exception
NoResult == [returned |-> FALSE, thrown |-> "nothing"]
Thrown(message) == [returned |-> FALSE, thrown |-> message]

VARIABLES
  pc,                \* position in runMultiStepCoreTest
  maxIterations,     \* const maxIterations
  iterationCount,    \* let iterationCount
  traceActionResult, \* const traceActionResult: the trajectory
  parsedStep,        \* const parsedStep of the running iteration
  providerIdx,       \* position of the for-of loop over providers
  warnings,          \* messages passed to runtime.logger.warn
  errors,            \* number of runtime.logger.error calls
  modelCalls,        \* calls of runtime.useModel, per prompt template
  composeCalls,      \* calls of runtime.composeState, per place
  stepLog,           \* values mockParseKeyValueXml returned to decision steps
  summary,           \* const summary
  result             \* value returned by runMultiStepCoreTest

multiStepVars ==
  << pc, maxIterations, iterationCount, traceActionResult, parsedStep,
     providerIdx, warnings, errors, modelCalls, composeCalls, stepLog,
     summary, result >>

(***************************************************************************)
(* State of the other components of the repository.  Each specification    *)
(* below steps one component and leaves the others in their initial state. *)
(***************************************************************************)
VARIABLES
  socketIO,          \* serverInstance.socketIO is set
  messages,          \* central message store behind serverInstance
  bus,               \* 'new_message' events emitted on internalMessageBus
  broadcasts,        \* 'messageBroadcast' events emitted through socketIO
  worlds,            \* worlds stored behind runtime.getWorld / updateWorld
  ops                \* requests and calls, in order of arrival

serverVars == << socketIO, messages, bus, broadcasts, worlds, ops >>

VARIABLES
  evaluations,       \* argument of runEvaluations
  evalIdx,           \* position of its for-of loop
  evalResults,       \* const results
  evalOutcome        \* how the call ended

evalVars == << evaluations, evalIdx, evalResults, evalOutcome >>

VARIABLES
  graph,             \* the object graph handed to the clone utilities
  cloneCache,        \* const cloneCache (module-level WeakMap)
  cloneOutcome,      \* how deepClone(root) ended
  circularOutcome    \* what hasCircularReference(root) returned

cloneVars == << graph, cloneCache, cloneOutcome, circularOutcome >>

VARIABLES
  storedSettings,    \* world.metadata.settings as the storage holds it
  handlers           \* the invocations of updateSettingsAction.handler

settingsVars == << storedSettings, handlers >>

VARIABLES
  shuttingDown,      \* what manager.isShuttingDown() reports
  agentStored,       \* the agents table holds a row of this.agentId
  adapterCalls,      \* the calls made on the adapter
  createAgentLog     \* per createAgent invocation: did the agent exist

adapterVars == << shuttingDown, agentStored, adapterCalls, createAgentLog >>

VARIABLES
  audioRequests      \* the requests made to the audio routes

audioVars == << audioRequests >>

VARIABLES
  pluginList,        \* argument of validatePlugins
  pluginIdx,         \* position of its for-of loop
  seenPlugins,       \* const seenPlugins
  validationResult,  \* const result
  validationReturned \* validatePlugins has returned

pluginVars ==
  << pluginList, pluginIdx, seenPlugins, validationResult, validationReturned >>

VARIABLES
  isShuttingDown,    \* let isShuttingDown
  mainPc,            \* position of the main path of the matrix command
  trackedProcesses,  \* processManager.getSummary().total
  signalLog,         \* the signals delivered and where their handler is
  terminateCalls,    \* who called processManager.terminateAllProcesses
  exitCode           \* the process.exit call that ended the run

matrixVars ==
  << isShuttingDown, mainPc, trackedProcesses, signalLog, terminateCalls,
     exitCode >>

\* the components outside the server, the evaluation engine and the clone
\* utilities
laterVars == << settingsVars, adapterVars, audioVars, pluginVars, matrixVars >>

\* the variables runMultiStepCoreTest does not touch
outside == << serverVars, evalVars, cloneVars, laterVars >>

vars == << multiStepVars, outside >>

\* one element of traceActionResult
Entry(name, success, text, error) ==
  [actionName |-> name, success |-> success, text |-> text, error |-> error]

\* line 525: parseInt(runtime.getSetting('MAX_MULTISTEP_ITERATIONS') || '6')
\* for the decimal settings "0" .. "MaxIterationsSetting".  An unset setting
\* gives the ceiling 6 and runs the same loop; it lies beyond the bound.
Settings == 0..MaxIterationsSetting

MultiStepInit ==
  /\ pc = "loop"
  /\ maxIterations \in Settings
  /\ iterationCount = 0
  /\ traceActionResult = << >>
  /\ parsedStep = NoStep
  /\ providerIdx = 0
  /\ warnings = {}
  /\ errors = 0
  /\ modelCalls = [decision |-> 0, summary |-> 0]
  /\ composeCalls = [decision |-> 0, summary |-> 0]
  /\ stepLog = << >>
  /\ summary = NoSummary
  /\ result = NoResult

(***************************************************************************)
(* Helpers that follow the JavaScript expressions of the function.         *)
(***************************************************************************)
\* the while condition with an inclusive comparison
LoopConditionInclusive == iterationCount <= maxIterations

\* line 528: the while condition
LoopCondition == iterationCount < maxIterations

\* line 556: isFinish === 'true' || isFinish === true
IsFinished(step) == step.isFinish = "str:true" \/ step.isFinish = "bool:true"

\* line 566: (!providers || providers.length === 0) && !action
NothingToDo(step) == Len(step.providers) = 0 /\ step.action = NoAction

\* line 660: action || 'unknown'
ActionOrUnknown(step) == IF step.action = NoAction THEN "unknown" ELSE step.action

\* a catch block that leaves the loop after recording the error
CatchStepErrorBreaks(trace, message) ==
  /\ errors' = errors + 1
  /\ traceActionResult' =
       Append(trace, [actionName |-> IF parsedStep.action = NoAction
                                       THEN "unknown" ELSE parsedStep.action,
                      success |-> FALSE, text |-> Undefined, error |-> message])
  /\ pc' = "afterLoop"
  /\ parsedStep' = NoStep
  /\ providerIdx' = 0

\* a catch block that rethrows instead of recording the error
CatchStepErrorRethrows(trace, message) ==
  /\ errors' = errors + 1
  /\ traceActionResult' = trace
  /\ pc' = "threw"
  /\ parsedStep' = NoStep
  /\ providerIdx' = 0

\* lines 657-664: the catch block of the step; the loop goes on
\* `trace` is traceActionResult as the try block left it
CatchStepError(trace, message) ==
  /\ errors' = errors + 1
  /\ traceActionResult' =
       Append(trace, Entry(ActionOrUnknown(parsedStep), FALSE, Undefined, message))
  /\ pc' = "loop"
  /\ parsedStep' = NoStep
  /\ providerIdx' = 0

\* lines 529-541: the head of an iteration, up to the parsed model output
BeginIteration(step) ==
  /\ pc = "loop"
  /\ LoopCondition
  /\ iterationCount' = iterationCount + 1
  /\ composeCalls' = [composeCalls EXCEPT !.decision = @ + 1]
  /\ modelCalls' = [modelCalls EXCEPT !.decision = @ + 1]
  /\ stepLog' = Append(stepLog, step)

\* the callback is awaited: it resolves or it rejects
CallbackOutcomes == {"resolves", "rejects"}

(***************************************************************************)
(* DECIDING: lines 528-571.                                                *)
(***************************************************************************)
\* lines 543-551: the output does not parse
DecideParseFailure ==
  /\ BeginIteration(ParseNull)
  /\ warnings' = warnings \cup {"Failed to parse step result"}
  /\ traceActionResult' =
       Append(traceActionResult,
              Entry("parse_error", FALSE, Undefined, "Failed to parse step result"))
  /\ pc' = "afterLoop"
  /\ UNCHANGED << outside, maxIterations, parsedStep, providerIdx, errors,
                  summary, result >>

\* lines 555-563: the step is marked finished; the callback is awaited
\* outside the try block
DecideFinish ==
  \E step \in ParsedSteps, cb \in CallbackOutcomes :
    /\ IsFinished(step)
    /\ BeginIteration(step)
    /\ IF cb = "resolves"
         THEN pc' = "afterLoop" /\ UNCHANGED result
         ELSE pc' = "threw" /\ result' = Thrown(CallbackFailed)
    /\ UNCHANGED << outside, maxIterations, traceActionResult, parsedStep, providerIdx,
                    warnings, errors, summary >>

\* a step with nothing to do that goes on to the next iteration
DecideNothingToDoContinues ==
  \E step \in ParsedSteps :
    /\ step.isFinish = "bool:false"
    /\ Len(step.providers) = 0 /\ step.action = NoAction
    /\ pc = "loop"
    /\ iterationCount < maxIterations
    /\ iterationCount' = iterationCount + 1
    /\ composeCalls' = [composeCalls EXCEPT !.decision = @ + 1]
    /\ modelCalls' = [modelCalls EXCEPT !.decision = @ + 1]
    /\ stepLog' = Append(stepLog, step)
    /\ warnings' = warnings \cup {"No providers or action specified"}
    /\ pc' = "loop"
    /\ UNCHANGED << outside, maxIterations, traceActionResult, parsedStep, providerIdx,
                    errors, summary, result >>

\* lines 565-571: nothing to do in this step
DecideNothingToDo ==
  \E step \in ParsedSteps :
    /\ ~IsFinished(step)
    /\ NothingToDo(step)
    /\ BeginIteration(step)
    /\ warnings' = warnings \cup {"No providers or action specified"}
    /\ pc' = "afterLoop"
    /\ UNCHANGED << outside, maxIterations, traceActionResult, parsedStep, providerIdx,
                    errors, summary, result >>

\* line 573: the step has something to execute
DecideExecute ==
  \E step \in ParsedSteps :
    /\ ~IsFinished(step)
    /\ ~NothingToDo(step)
    /\ BeginIteration(step)
    /\ parsedStep' = step
    /\ providerIdx' = 1
    /\ pc' = "providers"
    /\ UNCHANGED << outside, maxIterations, traceActionResult, warnings, errors,
                    summary, result >>

\* line 528: the while condition is false
ExitLoop ==
  /\ pc = "loop"
  /\ ~LoopCondition
  /\ pc' = "afterLoop"
  /\ UNCHANGED << outside, maxIterations, iterationCount, traceActionResult, parsedStep,
                  providerIdx, warnings, errors, modelCalls,
                  composeCalls, stepLog, summary, result >>

(***************************************************************************)
(* EXECUTING, providers: lines 575-617.                                    *)
(***************************************************************************)
InProviders ==
  /\ pc = "providers"
  /\ providerIdx <= Len(parsedStep.providers)

providerName == parsedStep.providers[providerIdx]

\* a missing provider that is skipped without a trajectory entry
ProviderNotFoundSilent ==
  /\ pc = "providers"
  /\ providerIdx <= Len(parsedStep.providers)
  /\ parsedStep.providers[providerIdx] \notin RegisteredProviders
  /\ warnings' = warnings \cup {"Provider not found"}
  /\ providerIdx' = providerIdx + 1
  /\ UNCHANGED << outside, pc, maxIterations, iterationCount, traceActionResult,
                  parsedStep, errors, modelCalls, composeCalls, stepLog,
                  summary, result >>

\* lines 577-585
ProviderNotFound ==
  /\ InProviders
  /\ providerName \notin RegisteredProviders
  /\ warnings' = warnings \cup {"Provider not found"}
  /\ traceActionResult' =
       Append(traceActionResult,
              Entry(providerName, FALSE, Undefined, "Provider not found"))
  /\ providerIdx' = providerIdx + 1
  /\ UNCHANGED << outside, pc, maxIterations, iterationCount, parsedStep, errors,
                  modelCalls, composeCalls, stepLog, summary, result >>

\* line 587: provider.get rejects; caught at line 657
ProviderThrows ==
  /\ InProviders
  /\ providerName \in RegisteredProviders
  /\ CatchStepError(traceActionResult, ProviderFailed)
  /\ UNCHANGED << outside, maxIterations, iterationCount, warnings,
                  modelCalls, composeCalls, stepLog, summary, result >>

\* lines 588-596
ProviderNoResult ==
  /\ InProviders
  /\ providerName \in RegisteredProviders
  /\ warnings' = warnings \cup {"Provider returned no result"}
  /\ traceActionResult' =
       Append(traceActionResult,
              Entry(providerName, FALSE, Undefined, "Provider returned no result"))
  /\ providerIdx' = providerIdx + 1
  /\ UNCHANGED << outside, pc, maxIterations, iterationCount, parsedStep, errors,
                  modelCalls, composeCalls, stepLog, summary, result >>

\* the text of a provider result: empty or not
ProviderTexts == {"", "Provider result"}

\* lines 598-605: the entry of a provider that returned a result
ProviderEntry(name, text) ==
  IF text # ""
    THEN Entry(name, TRUE, text, Undefined)
    ELSE Entry(name, FALSE, Undefined, Undefined)

\* lines 598-616: a result is recorded, then the callback is awaited; a
\* rejected callback is rethrown into the catch block of the step
ProviderResult ==
  \E text \in ProviderTexts, cb \in CallbackOutcomes :
    /\ InProviders
    /\ providerName \in RegisteredProviders
    /\ IF cb = "resolves"
         THEN /\ traceActionResult' =
                   Append(traceActionResult, ProviderEntry(providerName, text))
              /\ providerIdx' = providerIdx + 1
              /\ UNCHANGED << pc, parsedStep, errors >>
         ELSE CatchStepError(
                Append(traceActionResult, ProviderEntry(providerName, text)),
                CallbackFailed)
    /\ UNCHANGED << outside, maxIterations, iterationCount, warnings, modelCalls,
                    composeCalls, stepLog, summary, result >>

\* line 617: the for-of loop is over
ProvidersDone ==
  /\ pc = "providers"
  /\ providerIdx > Len(parsedStep.providers)
  /\ pc' = "action"
  /\ providerIdx' = 0
  /\ UNCHANGED << outside, maxIterations, iterationCount, traceActionResult, parsedStep,
                  warnings, errors, modelCalls, composeCalls,
                  stepLog, summary, result >>

(***************************************************************************)
(* EXECUTING, action: lines 619-656.                                       *)
(***************************************************************************)
\* line 620: the step names no action
NoActionInStep ==
  /\ pc = "action"
  /\ parsedStep.action = NoAction
  /\ pc' = "loop"
  /\ parsedStep' = NoStep
  /\ UNCHANGED << outside, maxIterations, iterationCount, traceActionResult, providerIdx,
                  warnings, errors, modelCalls, composeCalls,
                  stepLog, summary, result >>

\* lines 645-647: the first cached action result of the message, if any
NoCachedResult == [cached |-> FALSE]
CachedResults ==
  {NoCachedResult, [cached |-> TRUE, success |-> TRUE, text |-> "Action result"]}

\* lines 648-655: the entry of an executed action
ActionEntry(action, cached) ==
  IF ~cached.cached
    THEN Entry(action, FALSE, Undefined, Undefined)
    ELSE Entry(action, cached.success, cached.text,
               IF cached.success THEN Undefined ELSE cached.text)

\* lines 620-656: processActions resolves and the cached result is recorded
ExecuteActionResolves ==
  \E cached \in CachedResults :
    /\ pc = "action"
    /\ parsedStep.action # NoAction
    /\ traceActionResult' =
         Append(traceActionResult, ActionEntry(parsedStep.action, cached))
    /\ pc' = "loop"
    /\ parsedStep' = NoStep
    /\ UNCHANGED << outside, maxIterations, iterationCount, providerIdx, warnings, errors,
                    modelCalls, composeCalls, stepLog, summary, result >>

\* lines 627-643: processActions rejects; caught at line 657
ExecuteActionRejects ==
  /\ pc = "action"
  /\ parsedStep.action # NoAction
  /\ CatchStepError(traceActionResult, ActionFailed)
  /\ UNCHANGED << outside, maxIterations, iterationCount, warnings, modelCalls,
                  composeCalls, stepLog, summary, result >>

(***************************************************************************)
(* After the loop: lines 667-711.                                          *)
(***************************************************************************)
\* the ceiling test with a strict comparison
CeilingExceeded == iterationCount > maxIterations

\* line 667: iterationCount >= maxIterations
CeilingReached == iterationCount >= maxIterations

\* lines 667-671
AfterLoop ==
  /\ pc = "afterLoop"
  /\ warnings' = IF CeilingReached
                   THEN warnings \cup {"Reached maximum iterations"}
                   ELSE warnings
  /\ pc' = "summarize"
  /\ UNCHANGED << outside, maxIterations, iterationCount, traceActionResult, parsedStep,
                  providerIdx, errors, modelCalls, composeCalls,
                  stepLog, summary, result >>

\* a test of the summary that accepts an empty text
HasTextOrEmpty(s) == s # SummaryNull

\* line 684: summary?.text, as a JavaScript condition
HasText(s) == s \notin {SummaryNull, Undefined, ""}

\* lines 683-691
ResponseContent(s) ==
  IF HasText(s)
    THEN [isNull |-> FALSE, actions |-> << "REPLY" >>, text |-> s, simple |-> TRUE]
    ELSE [isNull |-> TRUE]

\* lines 693-703
ResponseMessages(content) ==
  IF content.isNull THEN << >> ELSE << [content |-> content] >>

\* lines 705-710
Result(content) ==
  [returned |-> TRUE,
   responseContent |-> content,
   responseMessages |-> ResponseMessages(content),
   mode |-> IF content.isNull THEN "none" ELSE "simple"]

\* lines 673-710: SUMMARIZING
Summarize ==
  \E s \in SummaryValues :
    /\ pc = "summarize"
    /\ composeCalls' = [composeCalls EXCEPT !.summary = @ + 1]
    /\ modelCalls' = [modelCalls EXCEPT !.summary = @ + 1]
    /\ summary' = s
    /\ result' = Result(ResponseContent(s))
    /\ pc' = "done"
    /\ UNCHANGED << outside, maxIterations, iterationCount, traceActionResult, parsedStep,
                    providerIdx, warnings, errors, stepLog >>

Next ==
  \/ DecideParseFailure
  \/ DecideFinish
  \/ DecideNothingToDo
  \/ DecideExecute
  \/ ExitLoop
  \/ ProviderNotFound
  \/ ProviderThrows
  \/ ProviderNoResult
  \/ ProviderResult
  \/ ProvidersDone
  \/ NoActionInStep
  \/ ExecuteActionResolves
  \/ ExecuteActionRejects
  \/ AfterLoop
  \/ Summarize

(***************************************************************************)
(* Properties of the multi-step cycle.                                     *)
(***************************************************************************)
Last(seq) == seq[Len(seq)]
Names(trace) == [i \in DOMAIN trace |-> trace[i].actionName]
IsPrefix(a, b) == Len(a) <= Len(b) /\ SubSeq(b, 1, Len(a)) = a

\* the step parsed, is not marked finished and names a provider or an action
Executes(step) ==
  /\ step.parsed
  /\ step.isFinish = "bool:false"
  /\ (step.providers # << >> \/ step.action # NoAction)

\* the step parsed, is not marked finished and names nothing
IsEmptyStep(step) ==
  /\ step.parsed
  /\ step.isFinish = "bool:false"
  /\ step.providers = << >>
  /\ step.action = NoAction

\* the names a step lists: its providers in order, then its action if any
ListedNames(step) ==
  step.providers \o (IF step.action = NoAction THEN << >> ELSE << step.action >>)

LoopLeft == pc \in {"afterLoop", "summarize", "done"}
ModeFollowsSummary ==
  result.mode = "simple" <=> (summary # SummaryNull /\ summary # "")

\* C1: the loop body is entered at most maxIterations times; so many
\* decision outputs are requested and parsed, and no more.
C1_IterationCeiling ==
  /\ iterationCount <= maxIterations
  /\ modelCalls.decision <= maxIterations
  /\ Len(stepLog) <= maxIterations

C1_Witness ==
  /\ pc = "summarize"
  /\ maxIterations = 2
  /\ modelCalls.decision = 2
  /\ \A i \in DOMAIN stepLog : Executes(stepLog[i])

\* C2: every cycle that has ended, whatever its steps and callback outcomes
\* were, has recomposed State once for the summary and has made exactly one
\* summarization model call.
C2_SummarizedOnce ==
  pc \in {"done", "threw"} =>
    modelCalls.summary = 1 /\ composeCalls.summary = 1

\* C3: the returned mode is "simple", with a response content and exactly
\* one response message, iff the summary parsed with a non-empty text;
\* otherwise mode is "none" with a null content and no message, and the
\* summarization never ends the cycle by an exception.
C3_ModeIffSummaryText ==
  /\ summary # NoSummary => pc = "done"
  /\ pc = "done" =>
       /\ result.returned
       /\ IF summary # SummaryNull /\ summary # ""
            THEN /\ result.mode = "simple"
                 /\ ~result.responseContent.isNull
                 /\ result.responseContent.text = summary
                 /\ Len(result.responseMessages) = 1
            ELSE /\ result.mode = "none"
                 /\ result.responseContent.isNull
                 /\ result.responseMessages = << >>

C3_Witness ==
  /\ pc = "done"
  /\ summary = ""
  /\ result.mode = "none"
  /\ "Reached maximum iterations" \in warnings

\* C4: a decision output that does not parse is recorded in the trajectory
\* and the loop goes on: after a parse failure the loop is left only when
\* the iteration ceiling is reached.
C4_ParseFailureContinues ==
  (stepLog # << >> /\ Last(stepLog) = ParseNull) =>
    /\ Last(traceActionResult).actionName = "parse_error"
    /\ LoopLeft => iterationCount >= maxIterations

\* C5 as stated: with maxIterations = 2 and decision outputs that are all
\* "not finished, no action", the loop runs exactly 2 iterations, then one
\* summarization call decides the mode.
C5_TwoIterationsNoAction ==
  ( /\ pc = "done"
    /\ maxIterations = 2
    /\ \A i \in DOMAIN stepLog :
         /\ stepLog[i].parsed
         /\ stepLog[i].isFinish = "bool:false"
         /\ stepLog[i].action = NoAction )
  => /\ modelCalls.decision = 2
     /\ modelCalls.summary = 1
     /\ ModeFollowsSummary

\* C5 amended: with maxIterations = 2 and decision outputs that are all
\* "not finished, no action" and name at least one provider, the loop runs
\* exactly 2 iterations, then one summarization call decides the mode.
C5_TwoIterationsProvidersOnly ==
  ( /\ pc = "done"
    /\ maxIterations = 2
    /\ \A i \in DOMAIN stepLog :
         /\ stepLog[i].parsed
         /\ stepLog[i].isFinish = "bool:false"
         /\ stepLog[i].action = NoAction
         /\ stepLog[i].providers # << >> )
  => /\ modelCalls.decision = 2
     /\ Len(stepLog) = 2
     /\ modelCalls.summary = 1
     /\ ModeFollowsSummary

C5_Witness ==
  /\ pc = "done"
  /\ maxIterations = 2
  /\ Len(stepLog) = 2
  /\ \A i \in DOMAIN stepLog : Executes(stepLog[i]) /\ stepLog[i].action = NoAction
  /\ errors = 1
  /\ result.mode = "simple"

\* C6: a parsed, unfinished step that names no provider and no action is
\* the last decision step of its cycle: the warning is logged, the loop is
\* left for the summarization, and the cycle ends with one summarization.
C6_EmptyStepEndsLoop ==
  \A i \in DOMAIN stepLog :
    IsEmptyStep(stepLog[i]) =>
      /\ i = Len(stepLog)
      /\ "No providers or action specified" \in warnings
      /\ LoopLeft
      /\ pc = "done" => modelCalls.summary = 1 /\ result.returned

C6_Witness ==
  /\ pc = "done"
  /\ maxIterations = 2
  /\ Len(stepLog) = 1
  /\ IsEmptyStep(stepLog[1])
  /\ "Reached maximum iterations" \notin warnings
  /\ result.mode = "simple"

\* C7 as stated: the ceiling warning is logged in every cycle whose steps
\* never finish (here: all of them parse and none is marked finished).
C7_WarningWheneverUnfinished ==
  ( /\ pc \in {"summarize", "done"}
    /\ \A i \in DOMAIN stepLog :
         stepLog[i].parsed /\ stepLog[i].isFinish = "bool:false" )
  => "Reached maximum iterations" \in warnings

\* C7 amended: the ceiling warning is logged exactly when the loop is left
\* with the iteration counter at maxIterations, whatever the last step was;
\* a cycle whose steps all execute is left only there.
C7_WarningIffCeiling ==
  pc \in {"summarize", "done"} =>
    /\ "Reached maximum iterations" \in warnings <=> Len(stepLog) >= maxIterations
    /\ (\A i \in DOMAIN stepLog : Executes(stepLog[i])) =>
         /\ Len(stepLog) = maxIterations
         /\ "Reached maximum iterations" \in warnings

C7_Witness ==
  /\ pc = "summarize"
  /\ maxIterations = 2
  /\ Len(stepLog) = 2
  /\ stepLog[2].parsed
  /\ stepLog[2].isFinish = "str:true"
  /\ "Reached maximum iterations" \in warnings

\* C8: when provider.get or the action execution throws, nothing is thrown
\* out of the cycle, one entry with success = false and the message of the
\* error is appended to the trajectory, and the loop goes on with its next
\* iteration or, at the ceiling, with the summarization.
C8_StepErrorsRecovered ==
  [][ (ProviderThrows \/ ExecuteActionRejects) =>
        /\ result' = result
        /\ Len(traceActionResult') = Len(traceActionResult) + 1
        /\ IsPrefix(traceActionResult, traceActionResult')
        /\ ~Last(traceActionResult').success
        /\ Last(traceActionResult').error \in {ProviderFailed, ActionFailed}
        /\ pc' = "loop"
        /\ iterationCount' = iterationCount
        /\ iterationCount' <= maxIterations ]_vars

C8_Witness ==
  /\ pc = "done"
  /\ result.returned
  /\ Len(stepLog) = 2
  /\ Len(traceActionResult) = 2
  /\ traceActionResult[1].error = ProviderFailed
  /\ traceActionResult[2].error = ActionFailed

\* C9: a callback that throws never makes the cycle fail: no call of the
\* cycle ends by the callback's exception, also when a step is marked
\* finished.
C9_CallbackErrorsContained ==
  pc # "threw" /\ result.thrown # CallbackFailed

RECURSIVE ListedNamesOfAll(_)
\* the names listed by the executed steps of a log, in order
ListedNamesOfAll(log) ==
  IF log = << >>
    THEN << >>
    ELSE (IF Executes(log[1]) THEN ListedNames(log[1]) ELSE << >>)
         \o ListedNamesOfAll(Tail(log))

\* C10 as stated: between two iterations, the trajectory holds exactly one
\* entry per provider named by each executed step, in the listed order,
\* followed by one entry for the step's action, under their own names.
C10_OneEntryPerListedName ==
  pc = "loop" => Names(traceActionResult) = ListedNamesOfAll(stepLog)

\* C10 amended: the trajectory only grows at its end.  A step appends one
\* entry under the provider's own name for each provider it names, in the
\* listed order, up to the first provider whose get or callback throws, then
\* one entry under the action's name if it names an action; when a provider's
\* get or the callback throws, the rest of the step is skipped and one failed
\* entry named after the step's action (or 'unknown') is appended instead.
C10_TrajectoryAppendOnly ==
  [][ /\ IsPrefix(traceActionResult, traceActionResult')
      /\ LET added == SubSeq(traceActionResult', Len(traceActionResult) + 1,
                             Len(traceActionResult'))
         IN CASE pc = "providers" /\ pc' = "providers" ->
                   Names(added) = << parsedStep.providers[providerIdx] >>
              [] pc = "providers" /\ pc' = "action" ->
                   /\ added = << >>
                   /\ Len(traceActionResult) >= Len(parsedStep.providers)
                   /\ SubSeq(Names(traceActionResult),
                             Len(traceActionResult) - Len(parsedStep.providers) + 1,
                             Len(traceActionResult)) = parsedStep.providers
              [] pc = "providers" /\ pc' = "loop" ->
                   /\ Names(added) \in
                        { << ActionOrUnknown(parsedStep) >>,
                          << parsedStep.providers[providerIdx],
                             ActionOrUnknown(parsedStep) >> }
                   /\ ~Last(added).success
              [] pc = "action" /\ pc' = "loop" ->
                   Names(added) = IF parsedStep.action = NoAction
                                    THEN << >> ELSE << parsedStep.action >>
              [] pc = "loop" /\ pc' = "afterLoop" ->
                   Names(added) \in {<< >>, << "parse_error" >>}
              [] OTHER -> added = << >> ]_vars

C10_Witness ==
  /\ pc = "loop"
  /\ Len(stepLog) = 1
  /\ stepLog[1].providers = << "NON_EXISTENT_PROVIDER", "TEST_PROVIDER" >>
  /\ stepLog[1].action = "TEST_ACTION"
  /\ Names(traceActionResult) =
       << "NON_EXISTENT_PROVIDER", "TEST_PROVIDER", "TEST_ACTION" >>

(***************************************************************************)
(* The messaging routes of createMessagingCoreRouter                       *)
(* (packages/server/src/api/messaging/core.ts) and the world settings      *)
(* helpers getWorldSettings / updateWorldSettings.                         *)
(***************************************************************************)
\* requests and calls that arrive in one behaviour
MaxOps == 2

DEFAULT_SERVER_ID == "00000000-0000-0000-0000-000000000000"
Null == "null"
NotAUuid == "not-a-uuid"
ChannelUuid == "channel-uuid"
AuthorUuid == "author-uuid"
ServerUuid == "server-uuid"
ReplyUuid == "reply-uuid"
ClientMessageId == "client-message-uuid"
\* identifiers the message store generates, in the order it hands them out
IdPool == << "generated-1", "generated-2", "generated-3", "generated-4" >>
GeneratedIds == { IdPool[n] : n \in DOMAIN IdPool }
Uuids ==
  { DEFAULT_SERVER_ID, ChannelUuid, AuthorUuid, ServerUuid, ReplyUuid,
    ClientMessageId } \cup GeneratedIds

\* JavaScript truthiness of a field of the request
Truthy(v) == v \notin { Undefined, Null, "" }
\* validateUuid of @elizaos/core: the identifier when well formed, else null
validateUuid(v) == IF v \in Uuids THEN v ELSE Null

\* the bodies explored: well-formed ones, and those with one field of a
\* well-formed body replaced by a value the route does not accept
OneDefect(wellFormed, defects) ==
  wellFormed \cup
  { [ b EXCEPT ![f] = defects[f] ] : b \in wellFormed, f \in DOMAIN defects }

\* req.body of POST /submit (line 17-26)
SubmitBodies ==
  OneDefect(
    [ channel_id : { ChannelUuid }, server_id : { DEFAULT_SERVER_ID, ServerUuid },
      author_id : { AuthorUuid }, content : { "hello" },
      in_reply_to_message_id : { Undefined, ReplyUuid },
      source_type : { "agent_response" }, raw_message : { "raw" } ],
    [ channel_id |-> NotAUuid, server_id |-> NotAUuid, author_id |-> Undefined,
      content |-> "", in_reply_to_message_id |-> NotAUuid,
      source_type |-> Undefined, raw_message |-> Undefined ])
\* req.body of POST /action (line 99-109)
ActionBodies ==
  OneDefect(
    [ messageId : { Undefined, ClientMessageId }, channel_id : { ChannelUuid },
      server_id : { DEFAULT_SERVER_ID }, author_id : { AuthorUuid },
      content : { "hello" }, in_reply_to_message_id : { Undefined },
      source_type : { "agent_response" }, raw_message : { "raw" } ],
    [ messageId |-> NotAUuid, channel_id |-> Undefined, server_id |-> Undefined,
      author_id |-> NotAUuid, content |-> Undefined,
      in_reply_to_message_id |-> NotAUuid, source_type |-> "",
      raw_message |-> Undefined ])
\* req.params.id and req.body of PATCH /action/:id (line 183-197)
PatchRequests ==
  OneDefect(
    [ id : { IdPool[1], ClientMessageId }, in_reply_to_message_id : { Undefined },
      author_id : { Undefined, AuthorUuid }, server_id : { Undefined, DEFAULT_SERVER_ID } ],
    [ id |-> NotAUuid, in_reply_to_message_id |-> NotAUuid,
      author_id |-> NotAUuid, server_id |-> NotAUuid ])
\* req.body of POST /ingest-external (line 256); the payload is Partial and
\* its identifiers are not checked for their form
IngestBodies ==
  OneDefect(
    [ channel_id : { ChannelUuid }, server_id : { ServerUuid, NotAUuid },
      author_id : { AuthorUuid }, content : { "hello" },
      source_id : { Undefined, "source-1", "source-2" } ],
    [ channel_id |-> Undefined, server_id |-> Undefined, author_id |-> "",
      content |-> Undefined ])

\* the argument of serverInstance.createMessage
MessageData(channelId, sourceId, messageId) ==
  [ channelId |-> channelId, sourceId |-> sourceId, messageId |-> messageId ]
NoData == MessageData(Undefined, Undefined, Undefined)

\* a request whose handler awaits the message store: the source_id of its
\* body and the argument of the awaited call
Awaiting(route, sourceId, data) ==
  [ kind |-> "request", route |-> route, pc |-> "storage", status |-> 0,
    sourceId |-> sourceId, data |-> data, id |-> Undefined,
    storage |-> "pending" ]
\* a request that was answered: res.status(status), the id of the message in
\* the answer, and how the awaited call of the message store ended
Answered(route, status, sourceId, id, storage) ==
  [ kind |-> "request", route |-> route, pc |-> "done", status |-> status,
    sourceId |-> sourceId, data |-> NoData, id |-> id, storage |-> storage ]

\* one more request or call can arrive
CanArrive == Len(ops) < MaxOps
\* a request or call arrives
Arrive(op) == CanArrive /\ ops' = Append(ops, op)
\* the requests of a route whose handler awaits the message store
AwaitingAt(route) ==
  { i \in DOMAIN ops : ops[i].kind = "request" /\ ops[i].route = route
                       /\ ops[i].pc = "storage" }

(***************************************************************************)
(* serverInstance.createMessage and serverInstance.updateMessage           *)
(* (AgentServer).  Creation is keyed by the source message id: creating a  *)
(* message whose source id is stored returns the stored message.           *)
(***************************************************************************)
StoredWithSource(sourceId) ==
  { m \in messages : sourceId # Undefined /\ m.sourceId = sourceId }
NewMessageId(data) ==
  IF data.messageId # Undefined THEN data.messageId
  ELSE IdPool[Cardinality(messages) + 1]
\* the message createMessage resolves to
createMessage(data) ==
  IF StoredWithSource(data.sourceId) # {}
  THEN CHOOSE m \in StoredWithSource(data.sourceId) : TRUE
  ELSE [ id |-> NewMessageId(data), channelId |-> data.channelId,
         sourceId |-> data.sourceId, edited |-> FALSE ]
\* createMessage can resolve: the id of a new message is not taken
CanCreate(data) ==
  \/ StoredWithSource(data.sourceId) # {}
  \/ \A m \in messages : m.id # NewMessageId(data)
StoredWithId(id) == { m \in messages : m.id = id }
\* the message updateMessage resolves to, when there is one to update
updateMessage(id) ==
  [ (CHOOSE m \in StoredWithId(id) : TRUE) EXCEPT !.edited = TRUE ]

\* socketIO.to(room).emit('messageBroadcast', { ..., id })
Broadcast(room, id) ==
  IF socketIO THEN Append(broadcasts, [ room |-> room, id |-> id ])
  ELSE broadcasts

\* what a step of a route leaves alone besides the message store
RouteFrame ==
  UNCHANGED << multiStepVars, evalVars, cloneVars, laterVars, socketIO, worlds >>

(***************************************************************************)
(* POST /submit (line 16-96)                                               *)
(***************************************************************************)
\* line 29
isValidServerId(server_id) ==
  server_id = DEFAULT_SERVER_ID \/ Truthy(validateUuid(server_id))
\* line 31-38 and 47: the conditions that answer 400
SubmitInvalid(body) ==
  \/ ~Truthy(validateUuid(body.channel_id))
  \/ ~Truthy(validateUuid(body.author_id))
  \/ ~Truthy(body.content)
  \/ ~isValidServerId(body.server_id)
  \/ ~Truthy(body.source_type)
  \/ ~Truthy(body.raw_message)
  \/ (Truthy(body.in_reply_to_message_id)
        /\ ~Truthy(validateUuid(body.in_reply_to_message_id)))
\* line 55-65: newRootMessageData
SubmitData(body) == MessageData(validateUuid(body.channel_id), Undefined, Undefined)

\* line 39 and 48: return res.status(400)
SubmitRejected ==
  /\ CanArrive
  /\ \E body \in SubmitBodies :
       /\ SubmitInvalid(body)
       /\ Arrive(Answered("submit", 400, Undefined, Undefined, "not called"))
       /\ UNCHANGED << messages, bus, broadcasts >>
       /\ RouteFrame

\* line 67: await serverInstance.createMessage(newRootMessageData)
SubmitAccepted ==
  /\ CanArrive
  /\ \E body \in SubmitBodies :
       /\ ~SubmitInvalid(body)
       /\ Arrive(Awaiting("submit", Undefined, SubmitData(body)))
       /\ UNCHANGED << messages, bus, broadcasts >>
       /\ RouteFrame

\* the bus after a submission that also publishes it
BusAfterSubmitPublishes(created) == Append(bus, [ id |-> created.id ])
\* line 85: NO broadcast to internalMessageBus here
BusAfterSubmit(created) == bus

\* line 67-88: createMessage resolved; broadcast, res.status(201)
SubmitCreated ==
  \E i \in AwaitingAt("submit") :
    LET created == createMessage(ops[i].data) IN
      /\ CanCreate(ops[i].data)
      /\ messages' = messages \cup { created }
      /\ broadcasts' = Broadcast(ops[i].data.channelId, created.id)
      /\ bus' = BusAfterSubmit(created)
      /\ ops' = [ ops EXCEPT ![i] = Answered("submit", 201, Undefined, created.id, "resolved") ]
      /\ RouteFrame

\* line 89-95: createMessage rejected; res.status(500)
SubmitFailed ==
  \E i \in AwaitingAt("submit") :
    /\ ops' = [ ops EXCEPT ![i] = Answered("submit", 500, Undefined, Undefined, "rejected") ]
    /\ UNCHANGED << messages, bus, broadcasts >>
    /\ RouteFrame

(***************************************************************************)
(* POST /action (line 98-180)                                              *)
(***************************************************************************)
\* line 113-136: the conditions that answer 400
ActionInvalid(body) ==
  \/ ~Truthy(validateUuid(body.channel_id))
  \/ ~Truthy(validateUuid(body.author_id))
  \/ ~Truthy(body.content)
  \/ ~isValidServerId(body.server_id)
  \/ ~Truthy(body.source_type)
  \/ ~Truthy(body.raw_message)
  \/ (Truthy(body.in_reply_to_message_id)
        /\ ~Truthy(validateUuid(body.in_reply_to_message_id)))
  \/ (Truthy(body.messageId) /\ ~Truthy(validateUuid(body.messageId)))
\* line 139-150: baseData; messageId is passed through
ActionData(body) ==
  MessageData(validateUuid(body.channel_id), Undefined, body.messageId)

\* line 121, 129, 135: return res.status(400)
ActionRejected ==
  /\ CanArrive
  /\ \E body \in ActionBodies :
       /\ ActionInvalid(body)
       /\ Arrive(Answered("action", 400, Undefined, Undefined, "not called"))
       /\ UNCHANGED << messages, bus, broadcasts >>
       /\ RouteFrame

\* line 152: await serverInstance.createMessage(baseData)
ActionAccepted ==
  /\ CanArrive
  /\ \E body \in ActionBodies :
       /\ ~ActionInvalid(body)
       /\ Arrive(Awaiting("action", Undefined, ActionData(body)))
       /\ UNCHANGED << messages, bus, broadcasts >>
       /\ RouteFrame

\* line 152-172: createMessage resolved; broadcast, res.status(201)
ActionCreated ==
  \E i \in AwaitingAt("action") :
    LET savedMessage == createMessage(ops[i].data) IN
      /\ CanCreate(ops[i].data)
      /\ messages' = messages \cup { savedMessage }
      /\ broadcasts' = Broadcast(ops[i].data.channelId, savedMessage.id)
      /\ ops' = [ ops EXCEPT ![i] =
                    Answered("action", 201, Undefined, savedMessage.id, "resolved") ]
      /\ UNCHANGED bus
      /\ RouteFrame

\* line 173-179: createMessage rejected; res.status(500)
ActionRouteFailed ==
  \E i \in AwaitingAt("action") :
    /\ ops' = [ ops EXCEPT ![i] = Answered("action", 500, Undefined, Undefined, "rejected") ]
    /\ UNCHANGED << messages, bus, broadcasts >>
    /\ RouteFrame

(***************************************************************************)
(* PATCH /action/:id (line 182-252)                                        *)
(***************************************************************************)
\* line 185-209: the conditions that answer 400
PatchInvalid(req) ==
  \/ ~Truthy(validateUuid(req.id))
  \/ (Truthy(req.in_reply_to_message_id)
        /\ ~Truthy(validateUuid(req.in_reply_to_message_id)))
  \/ (Truthy(req.author_id) /\ ~Truthy(validateUuid(req.author_id)))
  \/ (Truthy(req.server_id) /\ ~isValidServerId(req.server_id))

\* line 186, 200, 205, 208: return res.status(400)
PatchRejected ==
  /\ CanArrive
  /\ \E req \in PatchRequests :
       /\ PatchInvalid(req)
       /\ Arrive(Answered("patch", 400, Undefined, Undefined, "not called"))
       /\ UNCHANGED << messages, bus, broadcasts >>
       /\ RouteFrame

\* line 212: await serverInstance.updateMessage(id, ...)
PatchAccepted ==
  /\ CanArrive
  /\ \E req \in PatchRequests :
       /\ ~PatchInvalid(req)
       /\ Arrive(Awaiting("patch", Undefined, MessageData(Undefined, Undefined, req.id)))
       /\ UNCHANGED << messages, bus, broadcasts >>
       /\ RouteFrame

\* a lookup that fails and still broadcasts the update
PatchNotFoundBroadcasts ==
  \E i \in AwaitingAt("patch") :
    /\ StoredWithId(ops[i].data.messageId) = {}
    /\ ops' = [ ops EXCEPT ![i] = Answered("patch", 404, Undefined, Undefined, "resolved") ]
    /\ broadcasts' = Broadcast(Undefined, ops[i].data.messageId)
    /\ UNCHANGED << messages, bus >>
    /\ RouteFrame

\* line 222-224: updateMessage resolved to null; res.status(404)
PatchNotFound ==
  \E i \in AwaitingAt("patch") :
    /\ StoredWithId(ops[i].data.messageId) = {}
    /\ ops' = [ ops EXCEPT ![i] = Answered("patch", 404, Undefined, Undefined, "resolved") ]
    /\ UNCHANGED << messages, bus, broadcasts >>
    /\ RouteFrame

\* line 212-244: updateMessage resolved to the message; broadcast, 200
PatchUpdated ==
  \E i \in AwaitingAt("patch") :
    /\ StoredWithId(ops[i].data.messageId) # {}
    /\ LET updated == updateMessage(ops[i].data.messageId) IN
         /\ messages' = (messages \ StoredWithId(updated.id)) \cup { updated }
         /\ broadcasts' = Broadcast(updated.channelId, updated.id)
         /\ ops' = [ ops EXCEPT ![i] =
                       Answered("patch", 200, Undefined, updated.id, "resolved") ]
    /\ UNCHANGED bus
    /\ RouteFrame

\* line 245-251: updateMessage rejected; res.status(500)
PatchFailed ==
  \E i \in AwaitingAt("patch") :
    /\ ops' = [ ops EXCEPT ![i] = Answered("patch", 500, Undefined, Undefined, "rejected") ]
    /\ UNCHANGED << messages, bus, broadcasts >>
    /\ RouteFrame

(***************************************************************************)
(* POST /ingest-external (line 255-330)                                    *)
(***************************************************************************)
\* line 258-263: the condition that answers 400
IngestInvalid(body) ==
  \/ ~Truthy(body.channel_id)
  \/ ~Truthy(body.server_id)
  \/ ~Truthy(body.author_id)
  \/ ~Truthy(body.content)

\* messageToCreate without the id of the platform message
IngestDataWithoutSource(body) == MessageData(body.channel_id, Undefined, Undefined)
\* line 268-279: messageToCreate; sourceId: messagePayload.source_id
IngestData(body) == MessageData(body.channel_id, body.source_id, Undefined)

\* line 264: return res.status(400)
IngestRejected ==
  /\ CanArrive
  /\ \E body \in IngestBodies :
       /\ IngestInvalid(body)
       /\ Arrive(Answered("ingest", 400, Undefined, Undefined, "not called"))
       /\ UNCHANGED << messages, bus, broadcasts >>
       /\ RouteFrame

\* line 280: await serverInstance.createMessage(messageToCreate)
IngestAccepted ==
  /\ CanArrive
  /\ \E body \in IngestBodies :
       /\ ~IngestInvalid(body)
       /\ Arrive(Awaiting("ingest", body.source_id, IngestData(body)))
       /\ UNCHANGED << messages, bus, broadcasts >>
       /\ RouteFrame

\* line 280-322: createMessage resolved; internalMessageBus.emit, broadcast,
\* res.status(202)
IngestPublished ==
  \E i \in AwaitingAt("ingest") :
    LET createdRootMessage == createMessage(ops[i].data) IN
      /\ CanCreate(ops[i].data)
      /\ messages' = messages \cup { createdRootMessage }
      /\ bus' = Append(bus, [ id |-> createdRootMessage.id ])
      /\ broadcasts' = Broadcast(createdRootMessage.channelId, createdRootMessage.id)
      /\ ops' = [ ops EXCEPT ![i] =
                    Answered("ingest", 202, ops[i].sourceId,
                             createdRootMessage.id, "resolved") ]
      /\ RouteFrame

\* a failure of createMessage that is published all the same
IngestFailedPublishes ==
  \E i \in AwaitingAt("ingest") :
    /\ ops' = [ ops EXCEPT ![i] =
                  Answered("ingest", 500, ops[i].sourceId, Undefined, "rejected") ]
    /\ bus' = Append(bus, [ id |-> Undefined ])
    /\ UNCHANGED << messages, broadcasts >>
    /\ RouteFrame

\* a failure of createMessage that leaves the handler as an exception
IngestFailedUnhandled ==
  \E i \in AwaitingAt("ingest") :
    /\ ops' = [ ops EXCEPT ![i] =
                  [ Answered("ingest", 0, ops[i].sourceId, Undefined, "rejected")
                      EXCEPT !.pc = "raised" ] ]
    /\ UNCHANGED << messages, bus, broadcasts >>
    /\ RouteFrame

\* line 323-329: createMessage rejected; res.status(500)
IngestFailed ==
  \E i \in AwaitingAt("ingest") :
    /\ ops' = [ ops EXCEPT ![i] =
                  Answered("ingest", 500, ops[i].sourceId, Undefined, "rejected") ]
    /\ UNCHANGED << messages, bus, broadcasts >>
    /\ RouteFrame

(***************************************************************************)
(* getWorldSettings / updateWorldSettings                                  *)
(* (plugin-bootstrap/src/__tests__/multi-step.test.ts, line 937-989)       *)
(***************************************************************************)
\* runtime.agentId of the runtimes that call the helpers
Agents == { "agent-a", "agent-b" }
\* platform server ids handed to the helpers
PlatformIds == { "guild-1", "guild-2" }
\* WorldSettings objects handed to updateWorldSettings
SettingsValues == { "settings-1", "settings-2" }

\* createUniqueUuid of @elizaos/core: the platform id namespaced by the id of
\* the agent of the runtime
createUniqueUuid(agent, baseUserId) == << baseUserId, agent >>
WorldIds == { createUniqueUuid(a, p) : a \in Agents, p \in PlatformIds }

\* a stored world: absent, or present with or without metadata
NoWorld == [ exists |-> FALSE ]
NoMetadata == [ present |-> FALSE ]
Metadata(settings) == [ present |-> TRUE, settings |-> settings ]
World(metadata) == [ exists |-> TRUE, metadata |-> metadata ]

\* the worlds stored before the first call: none for guild-2
InitialWorlds ==
  [ w \in WorldIds |->
      IF w[1] = "guild-1"
      THEN World(IF w[2] = "agent-a" THEN NoMetadata ELSE Metadata(Undefined))
      ELSE NoWorld ]

\* a call of one of the helpers: where it stands, the world id it computed,
\* the world object it holds, what it returned and how its last awaited call
\* of the storage ended
Call(name, callPc, agent, serverId, worldId, world, ret, storage) ==
  [ kind |-> "call", name |-> name, pc |-> callPc, agent |-> agent,
    serverId |-> serverId, worldId |-> worldId, world |-> world, ret |-> ret,
    storage |-> storage ]
CallsAt(name, callPc) ==
  { i \in DOMAIN ops : ops[i].kind = "call" /\ ops[i].name = name
                       /\ ops[i].pc = callPc }
\* a call returns; its world object is dropped
Return(i, ret, storage) ==
  ops' = [ ops EXCEPT ![i] = [ @ EXCEPT !.pc = "done", !.world = NoWorld,
                                         !.ret = ret, !.storage = storage ] ]

\* what a step of a helper leaves alone besides the worlds
CallFrame ==
  UNCHANGED << multiStepVars, evalVars, cloneVars, laterVars, socketIO, messages,
               bus, broadcasts >>

\* the world id computed from the platform id alone
GetWorldIdIgnoresAgent(agent, serverId) == createUniqueUuid("agent-a", serverId)
\* line 942: const worldId = createUniqueUuid(runtime, serverId)
GetWorldId(agent, serverId) == createUniqueUuid(agent, serverId)

\* line 942-943: await runtime.getWorld(worldId)
GetWorldSettingsCalled ==
  \E agent \in Agents, serverId \in PlatformIds :
    /\ Arrive(Call("getWorldSettings", "getWorld", agent, serverId,
                   GetWorldId(agent, serverId), NoWorld, Undefined, "pending"))
    /\ UNCHANGED worlds
    /\ CallFrame

\* line 945-949: null without a world or without settings, else the settings
SettingsOf(world) ==
  IF ~world.exists THEN Null
  ELSE IF ~world.metadata.present THEN Null
  ELSE IF ~Truthy(world.metadata.settings) THEN Null
  ELSE world.metadata.settings

\* line 943-949: getWorld resolved
GetWorldSettingsReturns ==
  \E i \in CallsAt("getWorldSettings", "getWorld") :
    /\ Return(i, SettingsOf(worlds[ops[i].worldId]), "resolved")
    /\ UNCHANGED worlds
    /\ CallFrame

\* line 950-953: getWorld rejected; return null
GetWorldSettingsFails ==
  \E i \in CallsAt("getWorldSettings", "getWorld") :
    /\ Return(i, Null, "rejected")
    /\ UNCHANGED worlds
    /\ CallFrame

\* the world id computed from the platform id alone
UpdateWorldIdIgnoresAgent(agent, serverId) == createUniqueUuid("agent-a", serverId)
\* line 965: const worldId = createUniqueUuid(runtime, serverId)
UpdateWorldId(agent, serverId) == createUniqueUuid(agent, serverId)

\* line 965-966: await runtime.getWorld(worldId); the settings to store are
\* kept in the world object of the call
UpdateWorldSettingsCalled ==
  \E agent \in Agents, serverId \in PlatformIds, worldSettings \in SettingsValues :
    /\ Arrive(Call("updateWorldSettings", "getWorld", agent, serverId,
                   UpdateWorldId(agent, serverId),
                   World(Metadata(worldSettings)), Undefined, "pending"))
    /\ UNCHANGED worlds
    /\ CallFrame

\* line 968-971: getWorld resolved to nothing; return false
UpdateNoWorld ==
  \E i \in CallsAt("updateWorldSettings", "getWorld") :
    /\ ~worlds[ops[i].worldId].exists
    /\ Return(i, FALSE, "resolved")
    /\ UNCHANGED worlds
    /\ CallFrame

\* line 974-982: metadata initialised when missing, settings replaced;
\* await runtime.updateWorld(world)
UpdateWorldRead ==
  \E i \in CallsAt("updateWorldSettings", "getWorld") :
    /\ worlds[ops[i].worldId].exists
    /\ ops' = [ ops EXCEPT ![i] = [ @ EXCEPT !.pc = "updateWorld" ] ]
    /\ UNCHANGED worlds
    /\ CallFrame

\* line 986-988: getWorld rejected; return false
UpdateGetWorldFails ==
  \E i \in CallsAt("updateWorldSettings", "getWorld") :
    /\ Return(i, FALSE, "rejected")
    /\ UNCHANGED worlds
    /\ CallFrame

\* line 982-984: updateWorld resolved; return true
UpdateWorldSaved ==
  \E i \in CallsAt("updateWorldSettings", "updateWorld") :
    /\ worlds' = [ worlds EXCEPT ![ops[i].worldId] = ops[i].world ]
    /\ Return(i, TRUE, "resolved")
    /\ CallFrame

\* line 986-988: updateWorld rejected; return false
UpdateWorldFails ==
  \E i \in CallsAt("updateWorldSettings", "updateWorld") :
    /\ Return(i, FALSE, "rejected")
    /\ UNCHANGED worlds
    /\ CallFrame

\* the server before the first request and call
ServerInit ==
  /\ socketIO \in BOOLEAN
  /\ messages = {}
  /\ bus = << >>
  /\ broadcasts = << >>
  /\ worlds = InitialWorlds
  /\ ops = << >>

ServerNext ==
  \/ SubmitRejected
  \/ SubmitAccepted
  \/ SubmitCreated
  \/ SubmitFailed
  \/ ActionRejected
  \/ ActionAccepted
  \/ ActionCreated
  \/ ActionRouteFailed
  \/ PatchRejected
  \/ PatchAccepted
  \/ PatchNotFound
  \/ PatchUpdated
  \/ PatchFailed
  \/ IngestRejected
  \/ IngestAccepted
  \/ IngestPublished
  \/ IngestFailed
  \/ GetWorldSettingsCalled
  \/ GetWorldSettingsReturns
  \/ GetWorldSettingsFails
  \/ UpdateWorldSettingsCalled
  \/ UpdateNoWorld
  \/ UpdateWorldRead
  \/ UpdateGetWorldFails
  \/ UpdateWorldSaved
  \/ UpdateWorldFails

(***************************************************************************)
(* Properties of the messaging routes and of the world settings helpers.   *)
(***************************************************************************)
\* the requests of a route that were answered with a status
AnsweredWith(route, statuses) ==
  { i \in DOMAIN ops : ops[i].kind = "request" /\ ops[i].route = route
                       /\ ops[i].pc = "done" /\ ops[i].status \in statuses }
Routes == { "submit", "action", "patch", "ingest" }
\* the source ids of the ingestion requests that were accepted
IngestedSources ==
  { ops[i].sourceId : i \in AnsweredWith("ingest", { 202 }) } \ { Undefined }

Stepping ==
  { i \in DOMAIN ops' : i \notin DOMAIN ops \/ ops'[i] # ops[i] }

\* C12: the agent-side routes never publish on the internal bus.  No step of
\* a POST /submit, POST /action or PATCH /action/:id request emits a
\* 'new_message' event, whatever its outcome (200, 201, 400, 404, 500).
C12_AgentRoutesNeverPublish ==
  [][ (\E i \in Stepping : ops'[i].kind = "request"
                           /\ ops'[i].route \in { "submit", "action", "patch" })
        => bus' = bus ]_vars

\* a message was created through POST /action and updated through PATCH, and
\* the bus is empty
C12_Witness ==
  /\ AnsweredWith("action", { 201 }) # {}
  /\ AnsweredWith("patch", { 200 }) # {}
  /\ bus = << >>

\* the calls of a helper that returned
Returned(name) == CallsAt(name, "done")

\* C13: a failed storage call never crashes the process, it fails the
\* enclosing operation.  No request and no call ends by raising; a route
\* whose createMessage or updateMessage rejected answers 500; when getWorld
\* or updateWorld rejects, getWorldSettings returns null and
\* updateWorldSettings returns false.
C13_StorageFailuresContained ==
  \A i \in DOMAIN ops :
    /\ ops[i].pc # "raised"
    /\ (ops[i].pc = "done" /\ ops[i].storage = "rejected") =>
         IF ops[i].kind = "request" THEN ops[i].status = 500
         ELSE IF ops[i].name = "getWorldSettings" THEN ops[i].ret = Null
         ELSE ops[i].ret = FALSE

\* the store rejected the call of a route and the call of a helper
C13_Witness ==
  /\ \E i \in AnsweredWith("ingest", { 500 }) : ops[i].storage = "rejected"
  /\ \E i \in Returned("updateWorldSettings") :
       ops[i].storage = "rejected" /\ ops[i].ret = FALSE

\* C14: identifier resolution is deterministic.  Every call addresses the
\* world createUniqueUuid gives for its agent and platform id; when
\* updateWorldSettings(runtime, serverId, S) returns true, S is stored in
\* that world, and a getWorldSettings(runtime, serverId) whose read of the
\* storage resolves returns the settings stored in that same world: S, when
\* no write came in between.
C14_SettingsRoundTrip ==
  [][ \A i \in DOMAIN ops :
        (ops[i].kind = "call" /\ ops[i].pc # "done" /\ ops'[i].pc = "done"
           /\ ops'[i].storage = "resolved") =>
          LET w == createUniqueUuid(ops[i].agent, ops[i].serverId) IN
            /\ ops[i].worldId = w
            /\ IF ops[i].name = "getWorldSettings"
               THEN ops'[i].ret = SettingsOf(worlds[w])
               ELSE ops'[i].ret = TRUE =>
                      SettingsOf(worlds'[w]) = ops[i].world.metadata.settings
    ]_vars

\* agent-b stored settings-2 for guild-1 and then read them back
C14_Witness ==
  /\ Len(ops) = 2
  /\ ops[1].kind = "call" /\ ops[1].name = "updateWorldSettings"
  /\ ops[1].agent = "agent-b" /\ ops[1].serverId = "guild-1"
  /\ ops[1].pc = "done" /\ ops[1].ret = TRUE
  /\ ops[2].kind = "call" /\ ops[2].name = "getWorldSettings"
  /\ ops[2].agent = "agent-b" /\ ops[2].serverId = "guild-1"
  /\ ops[2].pc = "done" /\ ops[2].ret = "settings-2"

\* C15: identifier isolation.  Different agent ids with the same platform id
\* resolve to different identifiers; calls of different agents never address
\* the same world, and a world changes only by a successful update of the
\* agent it belongs to.
C15_AgentsAreIsolated ==
  /\ \A a, b \in Agents, p \in PlatformIds :
       a # b => createUniqueUuid(a, p) # createUniqueUuid(b, p)
  /\ \A i, j \in DOMAIN ops :
       (ops[i].kind = "call" /\ ops[j].kind = "call"
          /\ ops[i].agent # ops[j].agent) => ops[i].worldId # ops[j].worldId
  /\ \A a \in Agents, p \in PlatformIds :
       worlds[createUniqueUuid(a, p)] # InitialWorlds[createUniqueUuid(a, p)] =>
         \E i \in Returned("updateWorldSettings") :
           ops[i].agent = a /\ ops[i].serverId = p /\ ops[i].ret = TRUE

\* both agents stored settings for guild-1, each in its own world
C15_Witness ==
  /\ \A i \in DOMAIN ops : ops[i].kind = "call" /\ ops[i].pc = "done"
  /\ SettingsOf(worlds[createUniqueUuid("agent-a", "guild-1")]) = "settings-1"
  /\ SettingsOf(worlds[createUniqueUuid("agent-b", "guild-1")]) = "settings-2"

\* the requests that were answered with a status, whatever their route
AnsweredAny(statuses) == UNION { AnsweredWith(route, statuses) : route \in Routes }
\* the events on the bus that carry an id
EventsWith(id) == { k \in DOMAIN bus : bus[k].id = id }

\* C19: POST /ingest-external publishes only after persistence.  There is
\* exactly one 'new_message' event per request whose createMessage resolved,
\* none while the call is awaited, and each event carries the id of a stored
\* message, the one the request was answered with.  A request whose
\* createMessage rejected is answered 500 and adds no bus event and no socket
\* broadcast.
C19_PublishAfterPersistence ==
  /\ Len(bus) = Cardinality(AnsweredWith("ingest", { 202 }))
  /\ \A k \in DOMAIN bus : StoredWithId(bus[k].id) # {}
  /\ \A i \in AnsweredWith("ingest", { 202 }) :
       Cardinality(EventsWith(ops[i].id)) =
         Cardinality({ j \in AnsweredWith("ingest", { 202 }) : ops[j].id = ops[i].id })
  /\ \A i \in DOMAIN ops :
       (ops[i].kind = "request" /\ ops[i].route = "ingest"
          /\ ops[i].storage = "rejected") => ops[i].status = 500
  /\ Len(broadcasts) =
       IF socketIO THEN Cardinality(AnsweredAny({ 200, 201, 202 })) ELSE 0

\* one ingestion was stored and published, another one failed in the store
C19_Witness ==
  /\ socketIO
  /\ AnsweredWith("ingest", { 202 }) # {}
  /\ \E i \in AnsweredWith("ingest", { 500 }) : ops[i].storage = "rejected"
  /\ Len(bus) = 1
  /\ Len(broadcasts) = 1

\* C20: a request rejected by validation changes nothing.  A request answered
\* 400, or a PATCH answered 404, creates and updates no message, broadcasts
\* on no socket and emits no bus event: neither the step in which it arrives
\* nor the step that answers it changes the store, the sockets or the bus.
C20_RejectedRequestsChangeNothing ==
  [][ (\E i \in Stepping :
         /\ ops'[i].kind = "request"
         /\ \/ i \notin DOMAIN ops
            \/ (ops'[i].pc = "done" /\ ops'[i].status \in { 400, 404 }))
        => (messages' = messages /\ bus' = bus /\ broadcasts' = broadcasts) ]_vars

\* a malformed ingestion was answered 400 and an update of an unknown message
\* 404, with sockets attached
C20_Witness ==
  /\ socketIO
  /\ AnsweredWith("ingest", { 400 }) # {}
  /\ AnsweredWith("patch", { 404 }) # {}
  /\ messages = {} /\ bus = << >> /\ broadcasts = << >>

(***************************************************************************)
(* EvaluationEngine.runEvaluations                                         *)
(* (packages/cli/src/commands/scenario/src/EvaluationEngine.ts)            *)
(***************************************************************************)
\* longest list of evaluations handed to runEvaluations
MaxEvaluations == 3

\* two of the evaluator types the constructor registers (line 30-31)
RegisteredEvaluators == { "string_contains", "regex_match" }
\* the evaluations explored: a substring that stdout contains or not, a
\* pattern that stdout matches or not, a pattern that is not a regular
\* expression, and a type no evaluator is registered for
EvaluationSchemas ==
  { [ type |-> "string_contains", param |-> "found" ],
    [ type |-> "string_contains", param |-> "missing" ],
    [ type |-> "regex_match", param |-> "found" ],
    [ type |-> "regex_match", param |-> "(" ],
    [ type |-> "no_such_evaluator", param |-> "" ] }
EvaluationLists ==
  UNION { [ 1..n -> EvaluationSchemas ] : n \in 0..MaxEvaluations }

\* an EvaluationResult; the message is kept by its kind
EvaluationResult(success, message) == [ success |-> success, message |-> message ]

\* line 109: new RegExp(params.pattern, 'i') throws a SyntaxError
RegExpThrows(pattern) == pattern = "("
\* line 104-115: evaluate throws
EvaluateThrows(evaluation) ==
  evaluation.type = "regex_match" /\ RegExpThrows(evaluation.param)
\* line 96-100 and 109-113: the result evaluate resolves to
Evaluate(evaluation) ==
  EvaluationResult(evaluation.param = "found", "Checked")

EvalFrame ==
  UNCHANGED << multiStepVars, serverVars, cloneVars, laterVars, evaluations >>

\* runEvaluations is inside its loop, at an evaluation
InLoop == evalOutcome = "running" /\ evalIdx <= Len(evaluations)

\* line 56-63: no evaluator for the type; a failed result, continue
UnknownEvaluator ==
  /\ InLoop
  /\ evaluations[evalIdx].type \notin RegisteredEvaluators
  /\ evalResults' = Append(evalResults, EvaluationResult(FALSE, "Unknown evaluator type"))
  /\ evalIdx' = evalIdx + 1
  /\ UNCHANGED evalOutcome
  /\ EvalFrame

\* line 65-66: evaluate resolved; results.push(result)
EvaluatorResolves ==
  /\ InLoop
  /\ evaluations[evalIdx].type \in RegisteredEvaluators
  /\ ~EvaluateThrows(evaluations[evalIdx])
  /\ evalResults' = Append(evalResults, Evaluate(evaluations[evalIdx]))
  /\ evalIdx' = evalIdx + 1
  /\ UNCHANGED evalOutcome
  /\ EvalFrame

\* line 65: evaluate rejected; nothing catches it, runEvaluations rejects
EvaluatorRejects ==
  /\ InLoop
  /\ evaluations[evalIdx].type \in RegisteredEvaluators
  /\ EvaluateThrows(evaluations[evalIdx])
  /\ evalOutcome' = "rejected"
  /\ UNCHANGED << evalResults, evalIdx >>
  /\ EvalFrame

\* line 69: return results
ReturnResults ==
  /\ evalOutcome = "running"
  /\ evalIdx > Len(evaluations)
  /\ evalOutcome' = "returned"
  /\ UNCHANGED << evalResults, evalIdx >>
  /\ EvalFrame

\* line 49-53: runEvaluations is called
EvalInit ==
  /\ evaluations \in EvaluationLists
  /\ evalIdx = 1
  /\ evalResults = << >>
  /\ evalOutcome = "running"

EvalNext ==
  \/ UnknownEvaluator
  \/ EvaluatorResolves
  \/ EvaluatorRejects
  \/ ReturnResults

\* the evaluations that must give a failed result: unknown type, or throwing
MustFail(evaluation) ==
  evaluation.type \notin RegisteredEvaluators \/ EvaluateThrows(evaluation)

\* C16: runEvaluations returns exactly one result per requested evaluation,
\* in order; an evaluator that throws or an unknown evaluator type gives a
\* failed result for that evaluation, the remaining evaluations still run and
\* nothing propagates to the caller.
C16_OneResultPerEvaluation ==
  evalOutcome \notin { "running", "not called" } =>
    /\ evalOutcome = "returned"
    /\ Len(evalResults) = Len(evaluations)
    /\ \A k \in DOMAIN evaluations :
         MustFail(evaluations[k]) => ~evalResults[k].success

(***************************************************************************)
(* deepClone and hasCircularReference                                      *)
(* (packages/cli/src/commands/scenario/src/EvaluationEngine.ts, 449-628)   *)
(***************************************************************************)
\* objects of the graph handed to the utilities; object 1 is the argument
MaxObjects == 3
\* most references to other objects one object holds (its properties or
\* items that are not primitive values)
MaxRefs == 2

Objects == 1..MaxObjects
Root == 1
\* plain objects, arrays, and instances of a class
Kinds == { "object", "array", "custom" }
RefLists == UNION { [ 1..n -> Objects ] : n \in 0..MaxRefs }
Graphs == [ Objects -> [ kind : Kinds, refs : RefLists ] ]

\* the objects an object refers to
Refs(obj) == { graph[obj].refs[k] : k \in DOMAIN graph[obj].refs }
\* the objects reached from a set of objects by following references
RECURSIVE ReachedIn(_, _)
ReachedIn(objs, steps) ==
  IF steps = 0 THEN objs
  ELSE ReachedIn(objs \cup UNION { Refs(o) : o \in objs }, steps - 1)
ReachableFrom(obj) == ReachedIn({ obj }, MaxObjects)
\* the graph under obj contains a cycle: an object that reaches itself
Cyclic(obj) ==
  \E o \in ReachableFrom(obj) : o \in ReachedIn(Refs(o), MaxObjects)

\* values deepClone builds: a new object with the clones of what the object
\* refers to; or an object of the input itself
Fresh(kind, values) == [ fresh |-> TRUE, kind |-> kind, refs |-> values ]
Original(obj) == [ fresh |-> FALSE, original |-> obj ]
\* how a call ends, and cloneCache when it does
CloneThrew(cache) == [ threw |-> TRUE, value |-> Original(0), cache |-> cache ]
CloneReturned(value, cache) == [ threw |-> FALSE, value |-> value, cache |-> cache ]

RECURSIVE deepClone(_, _), cloneRefs(_, _, _, _)
\* line 476-557, for an object; cache is cloneCache when the call starts
deepClone(obj, cache) ==
  IF obj \in cache
  THEN \* line 483-485
       CloneThrew(cache)
  ELSE LET r == cloneRefs(graph[obj].refs, 1, cache \cup { obj }, << >>) IN
       IF graph[obj].kind \in { "object", "array" }
       THEN \* line 504-537: the entry of obj is deleted on both paths
            IF r.threw THEN CloneThrew(r.cache \ { obj })
            ELSE CloneReturned(Fresh(graph[obj].kind, r.values), r.cache \ { obj })
       ELSE \* line 540-556: the catch returns obj and leaves its entry
            IF r.threw THEN CloneReturned(Original(obj), r.cache)
            ELSE CloneReturned(Fresh(graph[obj].kind, r.values), r.cache \ { obj })
\* the loops over the items and the properties of an object, in order
cloneRefs(refs, k, cache, values) ==
  IF k > Len(refs) THEN [ threw |-> FALSE, values |-> values, cache |-> cache ]
  ELSE LET c == deepClone(refs[k], cache) IN
       IF c.threw THEN [ threw |-> TRUE, values |-> values, cache |-> c.cache ]
       ELSE cloneRefs(refs, k + 1, c.cache, Append(values, c.value))

RECURSIVE checkCircular(_, _), checkRefs(_, _, _)
\* line 597-625, for an object; visited is never unwound
checkCircular(current, visited) ==
  IF current \in visited THEN [ found |-> TRUE, visited |-> visited ]
  ELSE checkRefs(graph[current].refs, 1, visited \cup { current })
\* line 608-622: the loops over items and properties
checkRefs(refs, k, visited) ==
  IF k > Len(refs) THEN [ found |-> FALSE, visited |-> visited ]
  ELSE LET c == checkCircular(refs[k], visited) IN
       IF c.found THEN c ELSE checkRefs(refs, k + 1, c.visited)

\* a utility has not been called; the outcome of its call
NotCalled == [ called |-> FALSE ]
CloneOutcome(r) == [ called |-> TRUE, threw |-> r.threw, value |-> r.value ]
CircularOutcome(found) == [ called |-> TRUE, result |-> found ]

CloneFrame ==
  UNCHANGED << multiStepVars, serverVars, evalVars, laterVars, graph >>

\* deepClone(root) throws 'Circular reference detected in object to clone'
DeepCloneThrows ==
  /\ ~cloneOutcome.called
  /\ LET r == deepClone(Root, cloneCache) IN
       /\ r.threw
       /\ cloneOutcome' = CloneOutcome(r)
       /\ cloneCache' = r.cache
  /\ UNCHANGED circularOutcome
  /\ CloneFrame

\* deepClone(root) returns
DeepCloneReturns ==
  /\ ~cloneOutcome.called
  /\ LET r == deepClone(Root, cloneCache) IN
       /\ ~r.threw
       /\ cloneOutcome' = CloneOutcome(r)
       /\ cloneCache' = r.cache
  /\ UNCHANGED circularOutcome
  /\ CloneFrame

\* line 594-628: hasCircularReference(root), with a new visited set
HasCircularReferenceReturns ==
  /\ ~circularOutcome.called
  /\ circularOutcome' = CircularOutcome(checkCircular(Root, {}).found)
  /\ UNCHANGED << cloneOutcome, cloneCache >>
  /\ CloneFrame

\* the module is loaded and a graph is built
CloneInit ==
  /\ graph \in Graphs
  /\ cloneCache = {}
  /\ cloneOutcome = NotCalled
  /\ circularOutcome = NotCalled

CloneNext ==
  \/ DeepCloneThrows
  \/ DeepCloneReturns
  \/ HasCircularReferenceReturns

\* the clone of an acyclic graph: new objects all the way down
RECURSIVE Unfold(_)
Unfold(obj) ==
  Fresh(graph[obj].kind, [ k \in DOMAIN graph[obj].refs |-> Unfold(graph[obj].refs[k]) ])

\* C17: deepClone throws 'Circular reference detected in object to clone' if
\* and only if the graph of its argument contains a cycle; an acyclic
\* argument, shared objects included, is cloned to a structurally equal
\* value that shares no object with the argument.
C17_ThrowsIffCyclic ==
  cloneOutcome.called =>
    /\ cloneOutcome.threw <=> Cyclic(Root)
    /\ ~Cyclic(Root) => cloneOutcome.value = Unfold(Root)

\* C18: hasCircularReference returns true if and only if the graph of its
\* argument contains a cycle; it returns false for every acyclic graph,
\* also when an object is referred to from two places.
C18_TrueIffCyclic ==
  circularOutcome.called => (circularOutcome.result <=> Cyclic(Root))

(***************************************************************************)
(* The UPDATE_SETTINGS action of the bootstrap plugin:                     *)
(* updateSettingsAction.handler (line 1550-1788) with extractSettingValues,*)
(* processSettingUpdates and the three response generators.  Several       *)
(* invocations of the handler run against the settings of one world; an    *)
(* invocation yields at the storage calls it awaits.                       *)
(***************************************************************************)
\* longest list of updates extractSettingValues returns
MaxUpdates == 2
\* the concurrent invocations of the handler
Handlers == { "h1", "h2" }
\* values the model extracts from a message: never null, never an object
\* (line 1091-1096)
ExtractedValues == { "x" }
\* what the model answers to the prompt of a response generator: a text that
\* parses, a text that parseKeyValueXml turns into null, or a rejection
ModelOutcomes == { "text", "unparsable", "throws" }

\* one Setting of the onboarding configuration; its name is its key
Setting(value, required, dependsOn, onSetAction) ==
  [ value |-> value, required |-> required, dependsOn |-> dependsOn,
    onSetAction |-> onSetAction ]

\* B depends on A, which is not configured yet
DependentSettings ==
  [ k \in { "A", "B" } |->
      IF k = "A" THEN Setting(Null, TRUE, << >>, "none")
                 ELSE Setting(Null, FALSE, << "A" >>, "none") ]
\* B names a dependency that the settings do not contain
DanglingSettings == [ k \in { "B" } |-> Setting(Null, TRUE, << "A" >>, "none") ]
\* two settings without dependencies
IndependentSettings ==
  [ k \in { "A", "B" } |-> Setting(Null, k = "A", << >>, "none") ]
\* configured settings with onSetAction hooks: A's returns a message,
\* B's throws
HookedSettings ==
  [ k \in { "A", "B" } |->
      Setting("old", TRUE, << >>, IF k = "A" THEN "message" ELSE "throws") ]
\* the settings a world's metadata may hold when the handler is invoked
WorldSettingsMaps ==
  { DependentSettings, DanglingSettings, IndependentSettings, HookedSettings }
\* a settings variable that has not been assigned
EmptySettings == [ k \in {} |-> Null ]

\* the lists extractSettingValues can return for worldSettings: only keys
\* of worldSettings pass the filter of line 1091; [] when the model fails
extractSettingValues(worldSettings) ==
  UNION { [ 1..n -> [ key : DOMAIN worldSettings, value : ExtractedValues ] ] :
            n \in 0..MaxUpdates }

\* one entry of the messages processSettingUpdates returns
UpdateMessage(kind, key) == [ kind |-> kind, key |-> key ]
ErrorOccurred == << UpdateMessage("Error occurred while updating settings", Null) >>

\* setting.dependsOn.every((dep) => updatedState[dep]?.value !== null)
\* (line 1152-1154): for a dep that is no key of updatedState the left side
\* is undefined, and undefined !== null
dependenciesMet(setting, updatedState) ==
  \A i \in 1..Len(setting.dependsOn) :
    LET dep == setting.dependsOn[i]
    IN  IF dep \in DOMAIN updatedState
          THEN updatedState[dep].value # Null
          ELSE TRUE

\* the state of the loop of processSettingUpdates before the first update
LoopStart(worldSettings) ==
  [ updatedState |-> worldSettings, messages |-> << >>, updatedAny |-> FALSE,
    threw |-> FALSE ]

RECURSIVE ApplyUpdates(_, _, _)
\* for (const update of updates), from update i on (line 1143-1181)
ApplyUpdates(updates, i, loop) ==
  IF i > Len(updates) \/ loop.threw
    THEN loop
    ELSE
      LET update == updates[i]
          updatedState == loop.updatedState
      IN  IF update.key \notin DOMAIN updatedState
            THEN ApplyUpdates(updates, i + 1, loop)
            ELSE
              LET setting == updatedState[update.key]
                  written ==
                    [ loop EXCEPT
                        !.updatedState =
                          [ updatedState EXCEPT ![update.key].value = update.value ],
                        !.messages = Append(@, UpdateMessage("Updated", update.key)),
                        !.updatedAny = TRUE ]
              IN  IF Len(setting.dependsOn) > 0 /\ ~dependenciesMet(setting, updatedState)
                    THEN ApplyUpdates(updates, i + 1,
                           [ loop EXCEPT !.messages =
                               Append(@, UpdateMessage("dependencies not met", update.key)) ])
                    ELSE
                      CASE setting.onSetAction = "throws" ->
                             [ written EXCEPT !.threw = TRUE ]
                        [] setting.onSetAction = "message" ->
                             ApplyUpdates(updates, i + 1,
                               [ written EXCEPT !.messages =
                                   Append(@, UpdateMessage("onSetAction", update.key)) ])
                        [] OTHER -> ApplyUpdates(updates, i + 1, written)

\* categorizeSettings(worldSettings).requiredUnconfigured (line 1010-1035)
requiredUnconfigured(worldSettings) ==
  { k \in DOMAIN worldSettings :
      worldSettings[k].value = Null /\ worldSettings[k].required }

\* one invocation of the callback: the action it names and whether its text
\* is the model's or the fallback of the catch block
Reply(action, text) == [ action |-> action, text |-> text ]

\* the callbacks of generateErrorResponse (line 1447-1506)
generateErrorResponseSilent(outcome) ==
  IF outcome = "text"
    THEN << Reply("SETTING_UPDATE_ERROR", "model") >>
    ELSE << >>

\* the callbacks of generateErrorResponse (line 1447-1506): line 1464 when
\* the model answered a text that parses, line 1484 in the catch block
generateErrorResponse(outcome) ==
  IF outcome = "text"
    THEN << Reply("SETTING_UPDATE_ERROR", "model") >>
    ELSE << Reply("SETTING_UPDATE_ERROR", "fallback") >>

\* the callbacks of handleOnboardingComplete (line 1211-1275)
handleOnboardingComplete(outcome) ==
  IF outcome = "text"
    THEN << Reply("ONBOARDING_COMPLETE", "model") >>
    ELSE << Reply("ONBOARDING_COMPLETE", "fallback") >>

\* the callbacks of generateSuccessResponse (line 1280-1360)
generateSuccessResponse(worldSettings, outcome) ==
  IF requiredUnconfigured(worldSettings) = {}
    THEN handleOnboardingComplete(outcome)
    ELSE IF outcome = "text"
           THEN << Reply("SETTING_UPDATED", "model") >>
           ELSE << Reply("SETTING_UPDATED", "fallback") >>

\* the callbacks of generateFailureResponse (line 1365-1442)
generateFailureResponse(worldSettings, outcome) ==
  IF requiredUnconfigured(worldSettings) = {}
    THEN handleOnboardingComplete(outcome)
    ELSE IF outcome = "text"
           THEN << Reply("SETTING_UPDATE_FAILED", "model") >>
           ELSE << Reply("SETTING_UPDATE_FAILED", "fallback") >>

\* an invocation that has not started
IdleHandler ==
  [ pc |-> "idle", worldSettings |-> EmptySettings, updates |-> << >>,
    updatedState |-> EmptySettings, messages |-> << >>, updatedAny |-> FALSE,
    returned |-> FALSE, writes |-> 0, callbacks |-> << >>, result |-> "none" ]

\* the variables of the other components
HandlerFrame ==
  UNCHANGED << multiStepVars, serverVars, evalVars, cloneVars, adapterVars,
               audioVars, pluginVars, matrixVars >>

\* the handler returns an ActionResult after the given callbacks
HandlerReturns(h, callbacks, actionResult) ==
  handlers' = [ handlers EXCEPT ![h].pc = "done",
                                ![h].callbacks = @ \o callbacks,
                                ![h].result = actionResult ]

\* processSettingUpdates returns { updatedAny, messages } (line 1139, 1198,
\* 1203)
ProcessReturns(h, nextPc, updatedAny, updateMessages) ==
  handlers' = [ handlers EXCEPT ![h].pc = nextPc,
                                ![h].updatedAny = updatedAny,
                                ![h].messages = updateMessages,
                                ![h].returned = TRUE ]

\* no world of the owner carries settings (line 1615-1633)
HandlerNoServer(h) ==
  /\ handlers[h].pc = "idle"
  /\ \E outcome \in ModelOutcomes :
       HandlerReturns(h, generateErrorResponse(outcome), "NO_SERVER_FOUND")
  /\ UNCHANGED storedSettings
  /\ HandlerFrame

\* the world found has no serverId (line 1635-1654)
HandlerNoServerId(h) ==
  /\ handlers[h].pc = "idle"
  /\ \E outcome \in ModelOutcomes :
       HandlerReturns(h, generateErrorResponse(outcome), "NO_SERVER_ID")
  /\ UNCHANGED storedSettings
  /\ HandlerFrame

\* findWorldsForOwner rejects; the catch of the handler (line 1769-1787)
HandlerFails(h) ==
  /\ handlers[h].pc = "idle"
  /\ \E outcome \in ModelOutcomes :
       HandlerReturns(h, generateErrorResponse(outcome), "HANDLER_ERROR")
  /\ UNCHANGED storedSettings
  /\ HandlerFrame

\* getWorldSettings returns null, the storage failing (line 1657-1675)
HandlerNoSettingsState(h) ==
  /\ handlers[h].pc = "idle"
  /\ \E outcome \in ModelOutcomes :
       HandlerReturns(h, generateErrorResponse(outcome), "NO_SETTINGS_STATE")
  /\ UNCHANGED storedSettings
  /\ HandlerFrame

\* getWorldSettings returns the stored settings, extractSettingValues a
\* list of updates, and processSettingUpdates runs up to its first storage
\* call (line 1657-1687, 1139-1183)
HandlerExtracts(h) ==
  /\ handlers[h].pc = "idle"
  /\ \E updates \in extractSettingValues(storedSettings) :
       LET loop == ApplyUpdates(updates, 1, LoopStart(storedSettings))
           read == [ handlers EXCEPT ![h].worldSettings = storedSettings,
                                     ![h].updates = updates ]
       IN  CASE loop.threw ->
                  \* onSetAction threw: the catch of line 1199
                  handlers' = [ read EXCEPT ![h].pc = "respond",
                                            ![h].messages = ErrorOccurred,
                                            ![h].returned = TRUE ]
             [] ~loop.threw /\ ~loop.updatedAny ->
                  handlers' = [ read EXCEPT ![h].pc = "respond",
                                            ![h].messages = loop.messages,
                                            ![h].returned = TRUE ]
             [] OTHER ->
                  handlers' = [ read EXCEPT ![h].pc = "save",
                                            ![h].updatedState = loop.updatedState,
                                            ![h].messages = loop.messages ]
  /\ UNCHANGED storedSettings
  /\ HandlerFrame

\* updateWorldSettings(runtime, serverId, updatedState) stores the working
\* copy and returns true (line 1185, 959-984)
SettingsSaved(h) ==
  /\ handlers[h].pc = "save"
  /\ storedSettings' = handlers[h].updatedState
  /\ handlers' = [ handlers EXCEPT ![h].pc = "verify", ![h].writes = @ + 1 ]
  /\ HandlerFrame

\* updateWorldSettings returns false: no world, or the storage rejects
\* (line 968-971, 985-988); 'Failed to save updated state' is caught at
\* line 1199
SettingsSaveFails(h) ==
  /\ handlers[h].pc = "save"
  /\ ProcessReturns(h, "respond", FALSE, ErrorOccurred)
  /\ UNCHANGED storedSettings
  /\ HandlerFrame

\* the verification read of line 1192 returns the settings
SaveVerified(h) ==
  /\ handlers[h].pc = "verify"
  /\ ProcessReturns(h, "retrieve", TRUE, handlers[h].messages)
  /\ UNCHANGED storedSettings
  /\ HandlerFrame

\* the verification read returns null, the storage failing (line 950-953);
\* 'Failed to verify state save' is caught at line 1199
SaveVerificationFails(h) ==
  /\ handlers[h].pc = "verify"
  /\ ProcessReturns(h, "respond", FALSE, ErrorOccurred)
  /\ UNCHANGED storedSettings
  /\ HandlerFrame

\* updatedAny: the handler reads the settings again and answers
\* (line 1691-1745)
HandlerUpdated(h) ==
  /\ handlers[h].pc = "retrieve"
  /\ \E outcome \in ModelOutcomes :
       HandlerReturns(h, generateSuccessResponse(storedSettings, outcome), "UPDATED")
  /\ UNCHANGED storedSettings
  /\ HandlerFrame

\* the read of line 1695 returns null (line 1696-1712)
HandlerRetrieveFails(h) ==
  /\ handlers[h].pc = "retrieve"
  /\ \E outcome \in ModelOutcomes :
       HandlerReturns(h, generateErrorResponse(outcome), "RETRIEVE_FAILED")
  /\ UNCHANGED storedSettings
  /\ HandlerFrame

\* not updatedAny (line 1746-1768)
HandlerNoUpdates(h) ==
  /\ handlers[h].pc = "respond"
  /\ \E outcome \in ModelOutcomes :
       HandlerReturns(h, generateFailureResponse(handlers[h].worldSettings, outcome),
                      "NO_UPDATES")
  /\ UNCHANGED storedSettings
  /\ HandlerFrame

SettingsInit ==
  /\ storedSettings \in WorldSettingsMaps
  /\ handlers = [ h \in Handlers |-> IdleHandler ]

SettingsNext ==
  \/ \E h \in Handlers : HandlerNoServer(h)
  \/ \E h \in Handlers : HandlerNoServerId(h)
  \/ \E h \in Handlers : HandlerFails(h)
  \/ \E h \in Handlers : HandlerNoSettingsState(h)
  \/ \E h \in Handlers : HandlerExtracts(h)
  \/ \E h \in Handlers : SettingsSaved(h)
  \/ \E h \in Handlers : SettingsSaveFails(h)
  \/ \E h \in Handlers : SaveVerified(h)
  \/ \E h \in Handlers : SaveVerificationFails(h)
  \/ \E h \in Handlers : HandlerUpdated(h)
  \/ \E h \in Handlers : HandlerRetrieveFails(h)
  \/ \E h \in Handlers : HandlerNoUpdates(h)

(***************************************************************************)
(* Claims about the UPDATE_SETTINGS action.                                *)
(***************************************************************************)
\* the other invocations have written nothing
OnlyWriter(h) == \A g \in Handlers \ { h } : handlers[g].writes = 0

\* C21: processSettingUpdates is atomic: when it has returned updatedAny =
\* false the stored settings are those stored before the call (no other
\* invocation having written), when it has returned updatedAny = true the
\* accepted updates were written by exactly one updateWorld, and it never
\* writes more than once.
C21_AtomicBatch ==
  \A h \in Handlers :
    /\ handlers[h].writes <= 1
    /\ handlers[h].returned =>
         /\ (~handlers[h].updatedAny /\ OnlyWriter(h)) =>
              storedSettings = handlers[h].worldSettings
         /\ handlers[h].updatedAny => handlers[h].writes = 1

\* the working copy when update i of the batch of h is reached
WorkingCopy(h, i) ==
  ApplyUpdates(SubSeq(handlers[h].updates, 1, i - 1), 1,
               LoopStart(handlers[h].worldSettings))
\* the loop state after update i of the batch of h
AfterUpdate(h, i) ==
  ApplyUpdates(SubSeq(handlers[h].updates, 1, i), 1,
               LoopStart(handlers[h].worldSettings))
\* every setting named in dependsOn exists with a non-null value
DependenciesExist(setting, state) ==
  \A i \in 1..Len(setting.dependsOn) :
    /\ setting.dependsOn[i] \in DOMAIN state
    /\ state[setting.dependsOn[i]].value # Null

ChangedKeys(h) ==
  { k \in DOMAIN handlers[h].worldSettings :
      handlers[h].updatedState[k].value # handlers[h].worldSettings[k].value }

\* the results the handler returns
ActionResults ==
  { "NO_SERVER_FOUND", "NO_SERVER_ID", "HANDLER_ERROR", "NO_SETTINGS_STATE",
    "UPDATED", "RETRIEVE_FAILED", "NO_UPDATES" }

\* C23: an invocation of the handler with a state, a message and a callback
\* that does not throw invokes the callback exactly once, on every outcome,
\* and returns an ActionResult.
C23_CallbackExactlyOnce ==
  \A h \in Handlers :
    /\ Len(handlers[h].callbacks) <= 1
    /\ handlers[h].pc = "done" =>
         /\ Len(handlers[h].callbacks) = 1
         /\ handlers[h].result \in ActionResults

\* both invocations have returned: one after saving an update, the other
\* with the fallback text after the model failed
C23_Witness ==
  /\ handlers["h1"].pc = "done"
  /\ handlers["h1"].result = "UPDATED"
  /\ handlers["h2"].pc = "done"
  /\ handlers["h2"].result = "HANDLER_ERROR"
  /\ handlers["h2"].callbacks = << Reply("SETTING_UPDATE_ERROR", "fallback") >>

\* C24: when two invocations that each saved an update of a different key
\* have both returned, the stored settings hold both updates.
C24_NoLostUpdate ==
  \A h \in Handlers : \A g \in Handlers \ { h } :
    (/\ handlers[h].pc = "done" /\ handlers[h].writes = 1
     /\ handlers[g].pc = "done" /\ handlers[g].writes = 1
     /\ ChangedKeys(h) # {}
     /\ ChangedKeys(g) # {}
     /\ ChangedKeys(h) \cap ChangedKeys(g) = {}) =>
      \A k \in ChangedKeys(h) :
        storedSettings[k].value = handlers[h].updatedState[k].value

(***************************************************************************)
(* PgliteDatabaseAdapter (packages/plugin-sql/src/pglite/adapter.ts):      *)
(* withDatabase, isReady, close and ensureAgentExists of one adapter.      *)
(* The client manager and the getAgent / createAgent of the base adapter   *)
(* are the environment: the manager reports shutting down from its close   *)
(* on, getAgent returns the stored agent, createAgent stores it or fails.  *)
(***************************************************************************)
\* calls made on the adapter in one behaviour
MaxCalls == 3
\* this.agentId
AdapterAgentId == "agent-id"
\* how the operation handed to withDatabase settles
OperationResults == { "rows", "rejects" }
FailedToCreateAgent == "Failed to create agent"

\* a call of withDatabase: whether the manager reported shutting down when
\* it was made, whether operation() was invoked, and what the call returned
WithDatabaseCall(down, invoked, callPc, opResult, ret) ==
  [ name |-> "withDatabase", down |-> down, invoked |-> invoked, pc |-> callPc,
    opResult |-> opResult, ret |-> ret ]
\* a call of isReady
IsReadyCall(down, ret) == [ name |-> "isReady", down |-> down, ret |-> ret ]
\* a call of ensureAgentExists
EnsureCall(callPc, ret) == [ name |-> "ensureAgentExists", pc |-> callPc, ret |-> ret ]

\* the variables of the other components
AdapterFrame ==
  UNCHANGED << multiStepVars, serverVars, evalVars, cloneVars, settingsVars,
               audioVars, pluginVars, matrixVars >>

CanCall == Len(adapterCalls) < MaxCalls

\* the calls of the given name that are at callPc
AdapterCallsAt(name, callPc) ==
  { i \in 1..Len(adapterCalls) :
      adapterCalls[i].name = name /\ adapterCalls[i].pc = callPc }

\* close(): await this.manager.close() (line 124-126); from then on the
\* manager reports that it is shutting down
Close ==
  /\ ~shuttingDown
  /\ shuttingDown' = TRUE
  /\ UNCHANGED << agentStored, adapterCalls, createAgentLog >>
  /\ AdapterFrame

\* withDatabase invokes the operation although the manager is shutting down
WithDatabaseIgnoresShutdown ==
  /\ CanCall
  /\ shuttingDown
  /\ adapterCalls' =
       Append(adapterCalls, WithDatabaseCall(TRUE, TRUE, "running", Null, Null))
  /\ UNCHANGED << shuttingDown, agentStored, createAgentLog >>
  /\ AdapterFrame

\* withDatabase while the manager is shutting down (line 96-99)
WithDatabaseRefuses ==
  /\ CanCall
  /\ shuttingDown
  /\ adapterCalls' =
       Append(adapterCalls, WithDatabaseCall(TRUE, FALSE, "done", Null, Null))
  /\ UNCHANGED << shuttingDown, agentStored, createAgentLog >>
  /\ AdapterFrame

\* withDatabase otherwise: return operation() (line 100)
WithDatabaseInvokes ==
  /\ CanCall
  /\ ~shuttingDown
  /\ adapterCalls' =
       Append(adapterCalls, WithDatabaseCall(FALSE, TRUE, "running", Null, Null))
  /\ UNCHANGED << shuttingDown, agentStored, createAgentLog >>
  /\ AdapterFrame

\* the promise operation() returned settles, and with it the promise of
\* withDatabase (line 100)
OperationSettles ==
  /\ \E i \in AdapterCallsAt("withDatabase", "running") :
       \E opResult \in OperationResults :
         adapterCalls' =
           [ adapterCalls EXCEPT ![i].pc = "done", ![i].opResult = opResult,
                                 ![i].ret = opResult ]
  /\ UNCHANGED << shuttingDown, agentStored, createAgentLog >>
  /\ AdapterFrame

\* isReady (line 117-119)
IsReady ==
  /\ CanCall
  /\ adapterCalls' = Append(adapterCalls, IsReadyCall(shuttingDown, ~shuttingDown))
  /\ UNCHANGED << shuttingDown, agentStored, createAgentLog >>
  /\ AdapterFrame

\* ensureAgentExists is called and awaits getAgent (line 53-55)
EnsureAgentExistsCalled ==
  /\ CanCall
  /\ adapterCalls' = Append(adapterCalls, EnsureCall("getAgent", Null))
  /\ UNCHANGED << shuttingDown, agentStored, createAgentLog >>
  /\ AdapterFrame

\* getAgent resolves with the stored agent (line 55-58)
EnsureFindsAgent ==
  /\ agentStored
  /\ \E i \in AdapterCallsAt("ensureAgentExists", "getAgent") :
       adapterCalls' =
         [ adapterCalls EXCEPT ![i].pc = "done", ![i].ret = AdapterAgentId ]
  /\ UNCHANGED << shuttingDown, agentStored, createAgentLog >>
  /\ AdapterFrame

\* getAgent resolves with null; newAgent is built (line 55-68)
EnsureFindsNoAgent ==
  /\ ~agentStored
  /\ \E i \in AdapterCallsAt("ensureAgentExists", "getAgent") :
       adapterCalls' = [ adapterCalls EXCEPT ![i].pc = "createAgent" ]
  /\ UNCHANGED << shuttingDown, agentStored, createAgentLog >>
  /\ AdapterFrame

\* await this.createAgent(newAgent) (line 70): the agent is stored, or the
\* call resolves without having stored it
EnsureCreatesAgent ==
  /\ \E i \in AdapterCallsAt("ensureAgentExists", "createAgent") :
       adapterCalls' = [ adapterCalls EXCEPT ![i].pc = "readBack" ]
  /\ createAgentLog' = Append(createAgentLog, agentStored)
  /\ agentStored' \in { agentStored, TRUE }
  /\ UNCHANGED shuttingDown
  /\ AdapterFrame

\* the second getAgent finds the agent (line 71, 75)
EnsureReturnsCreated ==
  /\ agentStored
  /\ \E i \in AdapterCallsAt("ensureAgentExists", "readBack") :
       adapterCalls' =
         [ adapterCalls EXCEPT ![i].pc = "done", ![i].ret = AdapterAgentId ]
  /\ UNCHANGED << shuttingDown, agentStored, createAgentLog >>
  /\ AdapterFrame

\* the second getAgent finds nothing (line 71-74)
EnsureThrows ==
  /\ ~agentStored
  /\ \E i \in AdapterCallsAt("ensureAgentExists", "readBack") :
       adapterCalls' =
         [ adapterCalls EXCEPT ![i].pc = "done", ![i].ret = FailedToCreateAgent ]
  /\ UNCHANGED << shuttingDown, agentStored, createAgentLog >>
  /\ AdapterFrame

AdapterInit ==
  /\ shuttingDown = FALSE
  /\ agentStored \in BOOLEAN
  /\ adapterCalls = << >>
  /\ createAgentLog = << >>

AdapterNext ==
  \/ Close
  \/ WithDatabaseRefuses
  \/ WithDatabaseInvokes
  \/ OperationSettles
  \/ IsReady
  \/ EnsureAgentExistsCalled
  \/ EnsureFindsAgent
  \/ EnsureFindsNoAgent
  \/ EnsureCreatesAgent
  \/ EnsureReturnsCreated
  \/ EnsureThrows

(***************************************************************************)
(* Claims about the PGlite adapter.                                        *)
(***************************************************************************)
\* C25: a withDatabase call made while the manager reports shutting down
\* does not invoke the operation and returns null, and isReady then returns
\* false; a withDatabase call made before returns what the operation
\* returned, and isReady then returns true.
C25_ShutdownGate ==
  \A i \in 1..Len(adapterCalls) :
    LET call == adapterCalls[i]
    IN  /\ call.name = "withDatabase" /\ call.down =>
             ~call.invoked /\ call.pc = "done" /\ call.ret = Null
        /\ call.name = "withDatabase" /\ ~call.down =>
             /\ call.invoked
             /\ call.pc = "done" => call.ret = call.opResult /\ call.ret # Null
        /\ call.name = "isReady" => call.ret = ~call.down

\* an operation started before the shutdown has returned its rows, a later
\* withDatabase was refused and isReady has answered false
C25_Witness ==
  /\ Len(adapterCalls) = 3
  /\ adapterCalls[1] = WithDatabaseCall(FALSE, TRUE, "done", "rows", "rows")
  /\ adapterCalls[2] = WithDatabaseCall(TRUE, FALSE, "done", Null, Null)
  /\ adapterCalls[3] = IsReadyCall(TRUE, FALSE)

\* C26: createAgent is never invoked while the agent exists, it is invoked
\* at most once over all concurrent ensureAgentExists calls, and a call
\* that has ended returned the agent of the adapter's agentId or threw
\* 'Failed to create agent'.
C26_CreateAtMostOnce ==
  /\ Len(createAgentLog) <= 1
  /\ \A j \in 1..Len(createAgentLog) : ~createAgentLog[j]
  /\ \A i \in AdapterCallsAt("ensureAgentExists", "done") :
       adapterCalls[i].ret \in { AdapterAgentId, FailedToCreateAgent }

(***************************************************************************)
(* The audio routes of packages/server/src/api/audio/processing.ts:        *)
(* POST /:agentId/audio-messages and POST /:agentId/transcriptions.  The   *)
(* upload middleware has run when the handler starts, so req.file is set   *)
(* when a file was uploaded.  A handler yields once, at runtime.useModel.  *)
(***************************************************************************)
\* requests made in one behaviour
MaxAudioRequests == 2
AudioRoutes == { "audio-messages", "transcriptions" }
\* the keys of the agents map
RunningAgents == { AuthorUuid }
\* req.params.agentId: a running agent, a well-formed id of no agent, and a
\* text that is no UUID
AgentIdParams == { AuthorUuid, ReplyUuid, NotAUuid }
\* req.file: undefined, or the uploaded file with what validateAudioFile
\* says of it and whether its size exceeds MAX_FILE_SIZE
NoFile == [ uploaded |-> FALSE, validType |-> FALSE, oversize |-> FALSE ]
UploadedFiles == [ uploaded : { TRUE }, validType : BOOLEAN, oversize : BOOLEAN ]
AudioFiles == { NoFile } \cup UploadedFiles

\* a request whose handler stands at handlerPc: the status it answered, the
\* number of cleanupUploadedFile calls and of transcription model calls
AudioRequest(route, agentId, audioFile, handlerPc, status, code, cleanups, modelCalled) ==
  [ route |-> route, agentId |-> agentId, file |-> audioFile, pc |-> handlerPc,
    status |-> status, code |-> code, cleanups |-> cleanups,
    modelCalled |-> modelCalled ]

\* the variables of the other components
AudioFrame ==
  UNCHANGED << multiStepVars, serverVars, evalVars, cloneVars, settingsVars,
               adapterVars, pluginVars, matrixVars >>

CanRequest == Len(audioRequests) < MaxAudioRequests

\* the handler of a new request ends before the model is called
AudioAnswered(route, agentId, audioFile, status, code, cleanups) ==
  audioRequests' =
    Append(audioRequests,
           AudioRequest(route, agentId, audioFile, "done", status, code, cleanups, FALSE))

\* the handler awaiting the model reaches its end
AudioSettled(i, status, code) ==
  audioRequests' =
    [ audioRequests EXCEPT ![i].pc = "done", ![i].status = status,
                           ![i].code = code, ![i].cleanups = @ + 1 ]

\* the requests of the route that await runtime.useModel
Transcribing(route) ==
  { i \in 1..Len(audioRequests) :
      audioRequests[i].route = route /\ audioRequests[i].pc = "transcribing" }

\* validateUuid(req.params.agentId) is null (line 36-39, 98-101)
AudioInvalidId ==
  /\ CanRequest
  /\ \E route \in AudioRoutes, agentId \in AgentIdParams, audioFile \in AudioFiles :
       /\ validateUuid(agentId) = Null
       /\ AudioAnswered(route, agentId, audioFile, 400, "INVALID_ID", 0)
  /\ AudioFrame

\* no file on the request (line 41-44, 103-106)
AudioNoFile ==
  /\ CanRequest
  /\ \E route \in AudioRoutes, agentId \in AgentIdParams :
       /\ validateUuid(agentId) # Null
       /\ AudioAnswered(route, agentId, NoFile, 400, "INVALID_REQUEST", 0)
  /\ AudioFrame

\* agents.get(agentId) is undefined (line 46-51, 108-113)
AudioAgentNotFound ==
  /\ CanRequest
  /\ \E route \in AudioRoutes, agentId \in AgentIdParams, audioFile \in UploadedFiles :
       /\ validateUuid(agentId) # Null
       /\ agentId \notin RunningAgents
       /\ AudioAnswered(route, agentId, audioFile, 404, "NOT_FOUND", 1)
  /\ AudioFrame

\* validateAudioFile(audioFile) is false (line 55-58, 119-122)
AudioInvalidType ==
  /\ CanRequest
  /\ \E route \in AudioRoutes, agentId \in RunningAgents, audioFile \in UploadedFiles :
       /\ ~audioFile.validType
       /\ AudioAnswered(route, agentId, audioFile, 400, "INVALID_FILE_TYPE", 1)
  /\ AudioFrame

\* audioFile.size > MAX_FILE_SIZE (line 61-69, 125-133)
AudioTooLarge ==
  /\ CanRequest
  /\ \E route \in AudioRoutes, agentId \in RunningAgents, audioFile \in UploadedFiles :
       /\ audioFile.validType
       /\ audioFile.oversize
       /\ AudioAnswered(route, agentId, audioFile, 413, "FILE_TOO_LARGE", 1)
  /\ AudioFrame

\* await runtime.useModel(ModelType.TRANSCRIPTION, audioFile.buffer)
\* (line 72, 137)
AudioTranscribes ==
  /\ CanRequest
  /\ \E route \in AudioRoutes, agentId \in RunningAgents, audioFile \in UploadedFiles :
       /\ audioFile.validType
       /\ ~audioFile.oversize
       /\ audioRequests' =
            Append(audioRequests,
                   AudioRequest(route, agentId, audioFile, "transcribing", 0, Null, 0, TRUE))
  /\ AudioFrame

\* /audio-messages: the model resolves (line 75-77)
AudioMessageTranscribed ==
  /\ \E i \in Transcribing("audio-messages") : AudioSettled(i, 200, "success")
  /\ AudioFrame

\* /audio-messages: the model rejects (line 78-91)
AudioMessageFailed ==
  /\ \E i \in Transcribing("audio-messages") : AudioSettled(i, 500, "PROCESSING_ERROR")
  /\ AudioFrame

\* /transcriptions: the model resolves with a text (line 139-146)
TranscriptionSucceeded ==
  /\ \E i \in Transcribing("transcriptions") : AudioSettled(i, 200, "success")
  /\ AudioFrame

\* /transcriptions: the model resolves with nothing (line 139-143)
TranscriptionEmpty ==
  /\ \E i \in Transcribing("transcriptions") : AudioSettled(i, 500, "PROCESSING_ERROR")
  /\ AudioFrame

\* /transcriptions: the model rejects (line 147-160)
TranscriptionFailed ==
  /\ \E i \in Transcribing("transcriptions") : AudioSettled(i, 500, "PROCESSING_ERROR")
  /\ AudioFrame

AudioInit == audioRequests = << >>

AudioNext ==
  \/ AudioInvalidId
  \/ AudioNoFile
  \/ AudioAgentNotFound
  \/ AudioInvalidType
  \/ AudioTooLarge
  \/ AudioTranscribes
  \/ AudioMessageTranscribed
  \/ AudioMessageFailed
  \/ TranscriptionSucceeded
  \/ TranscriptionEmpty
  \/ TranscriptionFailed

(***************************************************************************)
(* Claims about the audio routes.                                          *)
(***************************************************************************)
\* C27: in both audio routes, a request with an uploaded file whose handler
\* has finished has had cleanupUploadedFile called for the file, whatever
\* the path, and the transcription model is called only for a well-formed
\* id of a running agent and a file of valid type and size.
C27_UploadsCleanedUp ==
  \A i \in 1..Len(audioRequests) :
    LET request == audioRequests[i]
    IN  /\ request.pc = "done" /\ request.file.uploaded => request.cleanups >= 1
        /\ request.modelCalled =>
             /\ validateUuid(request.agentId) \in RunningAgents
             /\ request.file.uploaded
             /\ request.file.validType
             /\ ~request.file.oversize

(***************************************************************************)
(* PluginParser.validatePlugins (EvaluationEngine.ts line 860-929).  One   *)
(* behaviour is one call; loadAndPreparePlugin is the environment.         *)
(***************************************************************************)
\* longest list of parsed plugins
MaxPlugins == 2
\* plugin names: two that match /^@elizaos\/plugin-[a-zA-Z0-9-]+$/ and one
\* that does not
PluginNames == { "@elizaos/plugin-a", "@elizaos/plugin-b", "plugin-a" }
\* plugin.version: absent, matching /^\d+\.\d+\.\d+$/, not matching
PluginVersions == { Undefined, "1.0.0", "1.0" }
\* plugin.config: absent, a plain object, an array
PluginConfigs == { Undefined, "object", "array" }
ParsedPlugins ==
  [ name : PluginNames, enabled : BOOLEAN, version : PluginVersions,
    config : PluginConfigs ]
PluginLists == UNION { [ 1..n -> ParsedPlugins ] : n \in 0..MaxPlugins }

\* isValidPluginName (line 944-946)
isValidPluginName(name) == name \in { "@elizaos/plugin-a", "@elizaos/plugin-b" }
\* isValidVersion (line 951-953)
isValidVersion(version) == version \in { "1.0.0" }
\* isValidConfig (line 958-961)
isValidConfig(config) == config = "object"

\* const result (line 861-866); plugins, errors and warnings hold the
\* positions of the plugins they are about
EmptyValidation ==
  [ valid |-> TRUE, plugins |-> << >>, errors |-> << >>, warnings |-> << >> ]
\* an entry of result.errors
PluginError(kind, i) == [ kind |-> kind, plugin |-> i ]

\* the variables of the other components
PluginFrame ==
  UNCHANGED << multiStepVars, serverVars, evalVars, cloneVars, settingsVars,
               adapterVars, audioVars, matrixVars, pluginList >>

\* the loop of validatePlugins stands at a plugin
AtPlugin == ~validationReturned /\ pluginIdx <= Len(pluginList)

\* result.errors.push(...); result.valid = false; continue
RecordError(validation, kind) ==
  /\ validationResult' =
       [ validation EXCEPT !.errors = Append(@, PluginError(kind, pluginIdx)),
                           !.valid = FALSE ]
  /\ pluginIdx' = pluginIdx + 1

\* result.plugins.push(plugin) (line 898-899)
Listed == [ validationResult EXCEPT !.plugins = Append(@, pluginIdx) ]

\* the plugin is enabled, not seen before and well named (line 872-892)
Loadable ==
  /\ AtPlugin
  /\ pluginList[pluginIdx].enabled
  /\ pluginList[pluginIdx].name \notin seenPlugins
  /\ isValidPluginName(pluginList[pluginIdx].name)

\* line 872-875
PluginDisabled ==
  /\ AtPlugin
  /\ ~pluginList[pluginIdx].enabled
  /\ validationResult' = [ validationResult EXCEPT !.warnings = Append(@, pluginIdx) ]
  /\ pluginIdx' = pluginIdx + 1
  /\ UNCHANGED << seenPlugins, validationReturned >>
  /\ PluginFrame

\* line 878-882
PluginDuplicate ==
  /\ AtPlugin
  /\ pluginList[pluginIdx].enabled
  /\ pluginList[pluginIdx].name \in seenPlugins
  /\ RecordError(validationResult, "Duplicate plugin")
  /\ UNCHANGED << seenPlugins, validationReturned >>
  /\ PluginFrame

\* line 883-892
PluginInvalidName ==
  /\ AtPlugin
  /\ pluginList[pluginIdx].enabled
  /\ pluginList[pluginIdx].name \notin seenPlugins
  /\ ~isValidPluginName(pluginList[pluginIdx].name)
  /\ seenPlugins' = seenPlugins \cup { pluginList[pluginIdx].name }
  /\ RecordError(validationResult, "Invalid plugin name")
  /\ UNCHANGED validationReturned
  /\ PluginFrame

\* loadAndPreparePlugin resolves with nothing (line 900-904)
PluginLoadFails ==
  /\ Loadable
  /\ seenPlugins' = seenPlugins \cup { pluginList[pluginIdx].name }
  /\ RecordError(validationResult, "Failed to load plugin")
  /\ UNCHANGED validationReturned
  /\ PluginFrame

\* loadAndPreparePlugin rejects (line 905-911)
PluginLoadThrows ==
  /\ Loadable
  /\ seenPlugins' = seenPlugins \cup { pluginList[pluginIdx].name }
  /\ RecordError(validationResult, "Error loading plugin")
  /\ UNCHANGED validationReturned
  /\ PluginFrame

\* the plugin is loaded and listed; its version is invalid (line 897-899,
\* 914-918)
PluginInvalidVersion ==
  /\ Loadable
  /\ pluginList[pluginIdx].version # Undefined
  /\ ~isValidVersion(pluginList[pluginIdx].version)
  /\ seenPlugins' = seenPlugins \cup { pluginList[pluginIdx].name }
  /\ RecordError(Listed, "Invalid version")
  /\ UNCHANGED validationReturned
  /\ PluginFrame

\* the plugin is loaded and listed; its config is invalid (line 897-899,
\* 921-925)
PluginInvalidConfig ==
  /\ Loadable
  /\ pluginList[pluginIdx].version # Undefined => isValidVersion(pluginList[pluginIdx].version)
  /\ pluginList[pluginIdx].config # Undefined
  /\ ~isValidConfig(pluginList[pluginIdx].config)
  /\ seenPlugins' = seenPlugins \cup { pluginList[pluginIdx].name }
  /\ RecordError(Listed, "Invalid configuration")
  /\ UNCHANGED validationReturned
  /\ PluginFrame

\* the plugin is loaded and listed and passes the last two checks
PluginAccepted ==
  /\ Loadable
  /\ pluginList[pluginIdx].version # Undefined => isValidVersion(pluginList[pluginIdx].version)
  /\ pluginList[pluginIdx].config # Undefined => isValidConfig(pluginList[pluginIdx].config)
  /\ seenPlugins' = seenPlugins \cup { pluginList[pluginIdx].name }
  /\ validationResult' = Listed
  /\ pluginIdx' = pluginIdx + 1
  /\ UNCHANGED validationReturned
  /\ PluginFrame

\* return result (line 928)
ValidatePluginsReturns ==
  /\ ~validationReturned
  /\ pluginIdx > Len(pluginList)
  /\ validationReturned' = TRUE
  /\ UNCHANGED << pluginIdx, seenPlugins, validationResult >>
  /\ PluginFrame

\* validatePlugins has been called with the list and stands before its loop
PluginCalled ==
  /\ pluginIdx = 1
  /\ seenPlugins = {}
  /\ validationResult = EmptyValidation
  /\ validationReturned = FALSE

PluginInit == pluginList \in PluginLists /\ PluginCalled

PluginNext ==
  \/ PluginDisabled
  \/ PluginDuplicate
  \/ PluginInvalidName
  \/ PluginLoadFails
  \/ PluginLoadThrows
  \/ PluginInvalidVersion
  \/ PluginInvalidConfig
  \/ PluginAccepted
  \/ ValidatePluginsReturns

(***************************************************************************)
(* Claims about validatePlugins.                                           *)
(***************************************************************************)
\* the positions listed in result.plugins
ListedPlugins ==
  { validationResult.plugins[j] : j \in 1..Len(validationResult.plugins) }
\* the positions an entry of result.errors is about
PluginsInError ==
  { validationResult.errors[j].plugin : j \in 1..Len(validationResult.errors) }

\* C28: in the result of validatePlugins no listed plugin has an error
\* recorded; every listed plugin is enabled, well named, named like no other
\* listed plugin and has a valid version and config; and result.valid is
\* true exactly when result.errors is empty.
C28_ListedPluginsAreValid ==
  validationReturned =>
    /\ ListedPlugins \cap PluginsInError = {}
    /\ \A i \in ListedPlugins :
         /\ pluginList[i].enabled
         /\ isValidPluginName(pluginList[i].name)
         /\ pluginList[i].version # Undefined => isValidVersion(pluginList[i].version)
         /\ pluginList[i].config # Undefined => isValidConfig(pluginList[i].config)
         /\ \A j \in ListedPlugins \ { i } : pluginList[j].name # pluginList[i].name
    /\ validationResult.valid <=> validationResult.errors = << >>

(***************************************************************************)
(* The shutdown of a matrix run (packages/cli/src/commands/tee/index.ts    *)
(* line 537-560 and 762-772, 867-902): the main path of the command and    *)
(* the SIGINT / SIGTERM handlers share isShuttingDown and processManager.  *)
(* The process manager is the environment: it tracks the processes the     *)
(* runs spawn, and terminateAllProcesses ends them all or rejects.         *)
(***************************************************************************)
\* signals delivered in one behaviour
MaxSignals == 2
\* processes the process manager tracks at a time
MaxProcesses == 2
Signals == { "SIGINT", "SIGTERM" }
\* process.exit has not been called
NotExited == [ exited |-> FALSE ]
\* process.exit(code) was called by the main path or by a signal handler
Exited(by, code) == [ exited |-> TRUE, by |-> by, code |-> code ]

\* the variables of the other components
MatrixFrame ==
  UNCHANGED << multiStepVars, serverVars, evalVars, cloneVars, settingsVars,
               adapterVars, audioVars, pluginVars >>

Running == exitCode = NotExited

\* the orchestrator spawns a process, which the process manager tracks
ProcessTracked ==
  /\ Running
  /\ mainPc = "executing"
  /\ trackedProcesses < MaxProcesses
  /\ trackedProcesses' = trackedProcesses + 1
  /\ UNCHANGED << isShuttingDown, mainPc, signalLog, terminateCalls, exitCode >>
  /\ MatrixFrame

\* a tracked process ends by itself
ProcessEnded ==
  /\ Running
  /\ mainPc = "executing"
  /\ trackedProcesses > 0
  /\ trackedProcesses' = trackedProcesses - 1
  /\ UNCHANGED << isShuttingDown, mainPc, signalLog, terminateCalls, exitCode >>
  /\ MatrixFrame

\* a signal arrives after the shutdown has started (line 540-543)
SignalIgnored ==
  /\ Running
  /\ Len(signalLog) < MaxSignals
  /\ isShuttingDown
  /\ \E signal \in Signals :
       signalLog' = Append(signalLog, [ signal |-> signal, pc |-> "ignored" ])
  /\ UNCHANGED << isShuttingDown, mainPc, trackedProcesses, terminateCalls, exitCode >>
  /\ MatrixFrame

\* the first signal, with tracked processes: the handler awaits
\* terminateAllProcesses (line 544-550)
SignalTerminates ==
  /\ Running
  /\ Len(signalLog) < MaxSignals
  /\ ~isShuttingDown
  /\ trackedProcesses > 0
  /\ isShuttingDown' = TRUE
  /\ \E signal \in Signals :
       signalLog' = Append(signalLog, [ signal |-> signal, pc |-> "terminating" ])
  /\ terminateCalls' = Append(terminateCalls, "signal")
  /\ UNCHANGED << mainPc, trackedProcesses, exitCode >>
  /\ MatrixFrame

\* the first signal, without tracked processes (line 544-548, 554-555)
SignalExits ==
  /\ Running
  /\ Len(signalLog) < MaxSignals
  /\ ~isShuttingDown
  /\ trackedProcesses = 0
  /\ isShuttingDown' = TRUE
  /\ \E signal \in Signals :
       signalLog' = Append(signalLog, [ signal |-> signal, pc |-> "done" ])
  /\ exitCode' = Exited("signal", 0)
  /\ UNCHANGED << mainPc, trackedProcesses, terminateCalls >>
  /\ MatrixFrame

\* the termination the handler awaits resolves (line 551-555)
SignalCleanupDone ==
  /\ Running
  /\ \E i \in 1..Len(signalLog) :
       /\ signalLog[i].pc = "terminating"
       /\ signalLog' = [ signalLog EXCEPT ![i].pc = "done" ]
  /\ trackedProcesses' = 0
  /\ exitCode' = Exited("signal", 0)
  /\ UNCHANGED << isShuttingDown, mainPc, terminateCalls >>
  /\ MatrixFrame

\* if (!isShuttingDown) { if (summary.total > 0) await terminateAllProcesses() }
\* process.exit(code): the cleanup of line 762-772, 868-880 and 892-901,
\* from which the main path goes on at nextPc
MainCleanup(nextPc, code) ==
  IF ~isShuttingDown /\ trackedProcesses > 0
    THEN /\ terminateCalls' = Append(terminateCalls, "main")
         /\ mainPc' = nextPc
         /\ UNCHANGED exitCode
    ELSE /\ exitCode' = Exited("main", code)
         /\ mainPc' = "exited"
         /\ UNCHANGED terminateCalls

\* executeMatrixRuns has resolved, or the dry run is complete
\* (line 756-772, 852-880)
MainCompletes ==
  /\ Running
  /\ mainPc = "executing"
  /\ \E code \in { 0, 1 } : MainCleanup("cleanup", code)
  /\ UNCHANGED << isShuttingDown, trackedProcesses, signalLog >>
  /\ MatrixFrame

\* a step of the main path throws (line 882-901)
MainFails ==
  /\ Running
  /\ mainPc = "executing"
  /\ MainCleanup("errorCleanup", 1)
  /\ UNCHANGED << isShuttingDown, trackedProcesses, signalLog >>
  /\ MatrixFrame

\* the termination awaited at line 768 or 874 resolves
MainCleanupDone ==
  /\ Running
  /\ mainPc = "cleanup"
  /\ trackedProcesses' = 0
  /\ mainPc' = "exited"
  /\ \E code \in { 0, 1 } : exitCode' = Exited("main", code)
  /\ UNCHANGED << isShuttingDown, signalLog, terminateCalls >>
  /\ MatrixFrame

\* the termination awaited at line 768 or 874 rejects: the await is inside
\* the try block, so the catch of line 882 runs its own cleanup
MainCleanupRejects ==
  /\ Running
  /\ mainPc = "cleanup"
  /\ MainCleanup("errorCleanup", 1)
  /\ UNCHANGED << isShuttingDown, trackedProcesses, signalLog >>
  /\ MatrixFrame

\* the termination awaited at line 896 resolves
MainErrorCleanupDone ==
  /\ Running
  /\ mainPc = "errorCleanup"
  /\ trackedProcesses' = 0
  /\ mainPc' = "exited"
  /\ exitCode' = Exited("main", 1)
  /\ UNCHANGED << isShuttingDown, signalLog, terminateCalls >>
  /\ MatrixFrame

MatrixInit ==
  /\ isShuttingDown = FALSE
  /\ mainPc = "executing"
  /\ trackedProcesses = 0
  /\ signalLog = << >>
  /\ terminateCalls = << >>
  /\ exitCode = NotExited

MatrixNext ==
  \/ ProcessTracked
  \/ ProcessEnded
  \/ SignalIgnored
  \/ SignalTerminates
  \/ SignalExits
  \/ SignalCleanupDone
  \/ MainCompletes
  \/ MainFails
  \/ MainCleanupDone
  \/ MainCleanupRejects
  \/ MainErrorCleanupDone

(***************************************************************************)
(* Claims about the matrix run.                                            *)
(***************************************************************************)
\* C29: during a matrix run terminateAllProcesses is invoked at most once,
\* whatever the order of the signals and of the main path's cleanup, and a
\* signal that arrives after the shutdown has started starts no termination.
C29_TerminateAtMostOnce ==
  /\ Len(terminateCalls) <= 1
  /\ \A i \in 2..Len(signalLog) : signalLog[i].pc = "ignored"

(***************************************************************************)
(* Specifications: one per component.                                      *)
(***************************************************************************)
\* runMultiStepCoreTest has been called with the setting "0" and not stepped
MultiStepIdle == MultiStepInit /\ maxIterations = 0
\* no request and no call has arrived
ServerIdle == ServerInit /\ socketIO = FALSE
\* runEvaluations has not been called
EvalIdle ==
  /\ evaluations = << >>
  /\ evalIdx = 0
  /\ evalResults = << >>
  /\ evalOutcome = "not called"
\* the clone utilities have not been called
CloneIdle ==
  /\ graph = << >>
  /\ cloneCache = {}
  /\ cloneOutcome = NotCalled
  /\ circularOutcome = NotCalled

\* no invocation of the UPDATE_SETTINGS handler has started
SettingsIdle == SettingsInit /\ storedSettings = DependentSettings
\* no call has been made on the adapter
AdapterIdle == AdapterInit /\ agentStored = FALSE
\* validatePlugins has been called with no plugin and not stepped
PluginIdle == PluginCalled /\ pluginList = << >>

\* the components before the UPDATE_SETTINGS action are idle
EarlierIdle == MultiStepIdle /\ ServerIdle /\ EvalIdle /\ CloneIdle
\* the UPDATE_SETTINGS action and the components after it are idle
LaterIdle == SettingsIdle /\ AdapterIdle /\ AudioInit /\ PluginIdle /\ MatrixInit

Init == MultiStepInit /\ ServerIdle /\ EvalIdle /\ CloneIdle /\ LaterIdle
Spec == Init /\ [][Next]_vars

InitServer == MultiStepIdle /\ ServerInit /\ EvalIdle /\ CloneIdle /\ LaterIdle
SpecServer == InitServer /\ [][ServerNext]_vars

InitEval == MultiStepIdle /\ ServerIdle /\ EvalInit /\ CloneIdle /\ LaterIdle
SpecEval == InitEval /\ [][EvalNext]_vars

InitClone == MultiStepIdle /\ ServerIdle /\ EvalIdle /\ CloneInit /\ LaterIdle
SpecClone == InitClone /\ [][CloneNext]_vars

InitSettings ==
  EarlierIdle /\ SettingsInit /\ AdapterIdle /\ AudioInit /\ PluginIdle /\ MatrixInit
SpecSettings == InitSettings /\ [][SettingsNext]_vars

InitAdapter ==
  EarlierIdle /\ SettingsIdle /\ AdapterInit /\ AudioInit /\ PluginIdle /\ MatrixInit
SpecAdapter == InitAdapter /\ [][AdapterNext]_vars

InitAudio ==
  EarlierIdle /\ SettingsIdle /\ AdapterIdle /\ AudioInit /\ PluginIdle /\ MatrixInit
SpecAudio == InitAudio /\ [][AudioNext]_vars

InitPlugins ==
  EarlierIdle /\ SettingsIdle /\ AdapterIdle /\ AudioInit /\ PluginInit /\ MatrixInit
SpecPlugins == InitPlugins /\ [][PluginNext]_vars

InitMatrix ==
  EarlierIdle /\ SettingsIdle /\ AdapterIdle /\ AudioInit /\ PluginIdle /\ MatrixInit
SpecMatrix == InitMatrix /\ [][MatrixNext]_vars

============================================================================
